---- MODULE Spec2Model ----
(***************************************************************************)
(* State-machine model of the game engine of src/script.js (class          *)
(* TetrisGame): grid, active / next / held piece, session counters, the    *)
(* gravity timer of animate() and the keyboard commands of handleInput().  *)
(* Every method of the class that changes game state is an operator from   *)
(* the object's fields (the record `game`) to the fields after the call;   *)
(* the draws of Math.random() are the parameter `rnd`.                     *)
(***************************************************************************)
EXTENDS Integers, Sequences, FiniteSets, TLC

VARIABLES
    game,     \* the fields of the TetrisGame object
    env,      \* what the environment delivers: piece kinds, frame deltas
    nLocks,   \* history: number of mergePiece calls since Init
    tail,     \* history: steps of the active piece taken after the first lock
    last      \* history: what the last step was observed to do

vars == <<game, env, nLocks, tail, last>>

----------------------------------------------------------------------------
(* Constants of the program                                                *)

GRID_WIDTH == 10
GRID_HEIGHT == 20

\* Object.keys(SHAPES), in insertion order
KEYS == <<"I", "O", "T", "S", "Z", "J", "L">>

SHAPES ==
    [I |-> [coords |-> << <<-1,0>>, <<0,0>>, <<1,0>>, <<2,0>> >>, color |-> 9089224],
     O |-> [coords |-> << <<0,0>>, <<1,0>>, <<0,1>>, <<1,1>> >>,  color |-> 13154426],
     T |-> [coords |-> << <<0,0>>, <<1,0>>, <<2,0>>, <<1,1>> >>,  color |-> 10260405],
     S |-> [coords |-> << <<1,0>>, <<2,0>>, <<0,1>>, <<1,1>> >>,  color |-> 8039818],
     Z |-> [coords |-> << <<0,0>>, <<1,0>>, <<1,1>>, <<2,1>> >>,  color |-> 12614266],
     J |-> [coords |-> << <<0,0>>, <<0,1>>, <<1,1>>, <<2,1>> >>,  color |-> 8032173],
     L |-> [coords |-> << <<2,0>>, <<0,1>>, <<1,1>>, <<2,1>> >>,  color |-> 12098160]]

\* POINTS[n] of the source is POINTS[n + 1] here (sequences start at 1)
POINTS == <<0, 100, 300, 500, 800>>

minDropInterval == 100
levelDropStep == 75
levelLinesStep == 10
softDropScore == 1
hardDropScore == 2
baseDropInterval == 1000

\* the value of a field holding null
NULL == [type |-> "null"]

Cols == 0 .. GRID_WIDTH - 1
Rows == 0 .. GRID_HEIGHT - 1

\* faulty variant: the floor of the interval is dropped
MaxUnfloored(a, b) == b

Max(a, b) == IF a > b THEN a ELSE b

----------------------------------------------------------------------------
(* Grid and pieces                                                         *)

createEmptyGrid == [x \in Cols |-> [y \in Rows |-> 0]]

getRandomPiece(randKey) ==
    [type |-> randKey, coords |-> SHAPES[randKey].coords, color |-> SHAPES[randKey].color]

\* the piece `p` carrying the anchor (x, y)
WithAnchor(p, x, y) ==
    [type |-> p.type, coords |-> p.coords, color |-> p.color, x |-> x, y |-> y]

\* the anchor spawnPiece and holdPiece give a piece
SpawnX(p) == IF p.type = "I" THEN ((GRID_WIDTH \div 2) - 1) - 1 ELSE (GRID_WIDTH \div 2) - 1
SpawnY == GRID_HEIGHT - 2
AtSpawn(p) == WithAnchor(p, SpawnX(p), SpawnY)

\* faulty variant: the side walls are not tested
checkCollisionNoWalls(grid, dx, dy, p) ==
    \E i \in 1 .. Len(p.coords) :
        LET newX == p.x + p.coords[i][1] + dx
            newY == p.y + p.coords[i][2] + dy
        IN  \/ newY < 0 \/ newY >= GRID_HEIGHT
            \/ (newX >= 0 /\ newX < GRID_WIDTH /\ grid[newX][newY] # 0)

\* faulty variant: the top edge of the grid is not tested
checkCollisionNoCeiling(grid, dx, dy, p) ==
    \E i \in 1 .. Len(p.coords) :
        LET newX == p.x + p.coords[i][1] + dx
            newY == p.y + p.coords[i][2] + dy
        IN  \/ newX < 0 \/ newX >= GRID_WIDTH \/ newY < 0
            \/ (newY < GRID_HEIGHT /\ grid[newX][newY] # 0)

checkCollision(grid, dx, dy, p) ==
    \E i \in 1 .. Len(p.coords) :
        LET newX == p.x + p.coords[i][1] + dx
            newY == p.y + p.coords[i][2] + dy
        IN  \/ newX < 0 \/ newX >= GRID_WIDTH \/ newY < 0 \/ newY >= GRID_HEIGHT
            \/ grid[newX][newY] # 0

\* the HUD before updateHud has written to it: what the page shows as loaded
HudAsLoaded == [written |-> FALSE, score |-> 0, level |-> 0, lines |-> 0]

\* the three values updateHud writes to the page
updateHud(g) ==
    [g EXCEPT !.hud = [written |-> TRUE, score |-> g.score, level |-> g.level,
                       lines |-> g.linesCleared]]

gameOver(g) == [g EXCEPT !.isGameOver = TRUE]

\* faulty variant: the new piece is tested one row below the spawn anchor
spawnPieceTestsBelow(g, rnd) ==
    LET fallback == g.nextPiece = NULL
        cur  == AtSpawn(IF fallback THEN getRandomPiece(rnd[1]) ELSE g.nextPiece)
        g1   == [g EXCEPT !.currentPiece = cur,
                          !.nextPiece = getRandomPiece(IF fallback THEN rnd[2] ELSE rnd[1]),
                          !.canHold = TRUE]
    IN  IF checkCollision(g1.grid, 0, -1, g1.currentPiece) THEN gameOver(g1) ELSE g1

\* faulty variant: the I piece is not shifted one column further left
spawnPieceUnshifted(g, rnd) ==
    LET fallback == g.nextPiece = NULL
        new  == IF fallback THEN getRandomPiece(rnd[1]) ELSE g.nextPiece
        cur  == WithAnchor(new, (GRID_WIDTH \div 2) - 1, SpawnY)
        g1   == [g EXCEPT !.currentPiece = cur,
                          !.nextPiece = getRandomPiece(IF fallback THEN rnd[2] ELSE rnd[1]),
                          !.canHold = TRUE]
    IN  IF checkCollision(g1.grid, 0, 0, g1.currentPiece) THEN gameOver(g1) ELSE g1

\* rnd: the kinds drawn by the calls of getRandomPiece, in call order
spawnPiece(g, rnd) ==
    LET fallback == g.nextPiece = NULL
        cur  == AtSpawn(IF fallback THEN getRandomPiece(rnd[1]) ELSE g.nextPiece)
        g1   == [g EXCEPT !.currentPiece = cur,
                          !.nextPiece = getRandomPiece(IF fallback THEN rnd[2] ELSE rnd[1]),
                          !.canHold = TRUE]
    IN  IF checkCollision(g1.grid, 0, 0, g1.currentPiece) THEN gameOver(g1) ELSE g1

----------------------------------------------------------------------------
(* Line clearing                                                           *)

IsFullRow(grid, y) == \A x \in Cols : grid[x][y] # 0

\* linesToClear, as the set of its members (the scan pushes them in increasing y)
LinesToClear(grid) == {y \in Rows : IsFullRow(grid, y)}

\* the rows the copy loop of checkLines copies from row y on, in loop order
RECURSIVE CopiedRows(_, _)
CopiedRows(full, y) ==
    IF y >= GRID_HEIGHT THEN <<>>
    ELSE IF y \notin full
         THEN <<y>> \o CopiedRows(full, y + 1)
         ELSE CopiedRows(full, y + 1)

\* faulty variant: the full rows are emptied where they are, nothing moves down
CopyRowsInPlace(grid, full) ==
    [x \in Cols |-> [w \in Rows |-> IF w \in full THEN 0 ELSE grid[x][w]]]

\* newGrid after the copy loop: the row copied n-th is written at
\* currentWriteY = n - 1, every other cell keeps the value createEmptyGrid gave it
CopyRows(grid, full) ==
    LET copied == CopiedRows(full, 0)
    IN  [x \in Cols |-> [w \in Rows |->
            IF w < Len(copied) THEN grid[x][copied[w + 1]] ELSE createEmptyGrid[x][w]]]

\* POINTS[lines] || 0
PointsFor(lines) == IF lines + 1 <= Len(POINTS) THEN POINTS[lines + 1] ELSE 0

\* faulty variant: the score is given at the level the clear leads to
checkLinesScoreAfter(g) ==
    LET full  == LinesToClear(g.grid)
        lines == Cardinality(full)
    IN  IF lines > 0
        THEN LET newLines == g.linesCleared + lines
                 newLevel == (newLines \div levelLinesStep) + 1
                 up       == newLevel > g.level
             IN  updateHud([g EXCEPT
                    !.grid = CopyRows(g.grid, full),
                    !.score = g.score + PointsFor(lines) * (IF up THEN newLevel ELSE g.level),
                    !.linesCleared = newLines,
                    !.level = IF up THEN newLevel ELSE g.level,
                    !.dropInterval =
                        IF up THEN Max(minDropInterval,
                                       baseDropInterval - (newLevel - 1) * levelDropStep)
                              ELSE g.dropInterval])
        ELSE g

\* faulty variant: the level is computed without the + 1
checkLinesLevelOff(g) ==
    LET full  == LinesToClear(g.grid)
        lines == Cardinality(full)
    IN  IF lines > 0
        THEN LET newLines == g.linesCleared + lines
                 newLevel == newLines \div levelLinesStep
                 up       == newLevel > g.level
             IN  updateHud([g EXCEPT
                    !.grid = CopyRows(g.grid, full),
                    !.score = g.score + PointsFor(lines) * g.level,
                    !.linesCleared = newLines,
                    !.level = IF up THEN newLevel ELSE g.level,
                    !.dropInterval =
                        IF up THEN Max(minDropInterval,
                                       baseDropInterval - (newLevel - 1) * levelDropStep)
                              ELSE g.dropInterval])
        ELSE g

\* faulty variant: a row counts as full as soon as it holds a cell
checkLinesAnyCell(g) ==
    LET full  == {y \in Rows : \E x \in Cols : g.grid[x][y] # 0}
        lines == Cardinality(full)
    IN  IF lines > 0
        THEN LET newLines == g.linesCleared + lines
                 newLevel == (newLines \div levelLinesStep) + 1
                 up       == newLevel > g.level
             IN  updateHud([g EXCEPT
                    !.grid = CopyRows(g.grid, full),
                    !.score = g.score + PointsFor(lines) * g.level,
                    !.linesCleared = newLines,
                    !.level = IF up THEN newLevel ELSE g.level,
                    !.dropInterval =
                        IF up THEN Max(minDropInterval,
                                       baseDropInterval - (newLevel - 1) * levelDropStep)
                              ELSE g.dropInterval])
        ELSE g

\* faulty variant: the award replaces the score instead of being added to it
checkLinesScoreSet(g) ==
    LET full  == LinesToClear(g.grid)
        lines == Cardinality(full)
    IN  IF lines > 0
        THEN LET newLines == g.linesCleared + lines
                 newLevel == (newLines \div levelLinesStep) + 1
                 up       == newLevel > g.level
             IN  updateHud([g EXCEPT
                    !.grid = CopyRows(g.grid, full),
                    !.score = PointsFor(lines) * g.level,
                    !.linesCleared = newLines,
                    !.level = IF up THEN newLevel ELSE g.level,
                    !.dropInterval =
                        IF up THEN Max(minDropInterval,
                                       baseDropInterval - (newLevel - 1) * levelDropStep)
                              ELSE g.dropInterval])
        ELSE g

checkLines(g) ==
    LET full  == LinesToClear(g.grid)
        lines == Cardinality(full)
    IN  IF lines > 0
        THEN LET newLines == g.linesCleared + lines
                 newLevel == (newLines \div levelLinesStep) + 1
                 up       == newLevel > g.level
             IN  updateHud([g EXCEPT
                    !.grid = CopyRows(g.grid, full),
                    !.score = g.score + PointsFor(lines) * g.level,
                    !.linesCleared = newLines,
                    !.level = IF up THEN newLevel ELSE g.level,
                    !.dropInterval =
                        IF up THEN Max(minDropInterval,
                                       baseDropInterval - (newLevel - 1) * levelDropStep)
                              ELSE g.dropInterval])
        ELSE g

\* the write loop of mergePiece from block i on
RECURSIVE WriteBlocks(_, _, _)
WriteBlocks(grid, p, i) ==
    IF i > Len(p.coords) THEN grid
    ELSE LET x == p.x + p.coords[i][1]
             y == p.y + p.coords[i][2]
         IN  IF y >= 0 /\ y < GRID_HEIGHT /\ x >= 0 /\ x < GRID_WIDTH
             THEN WriteBlocks([grid EXCEPT ![x][y] = p.color], p, i + 1)
             ELSE WriteBlocks(grid, p, i + 1)

\* the cell writes of mergePiece, before checkLines and spawnPiece
MergeCells(grid, p) == WriteBlocks(grid, p, 1)

\* faulty variant: the piece is locked and the next one spawns, no row is looked at
mergePieceKeepsRows(g, rnd) ==
    spawnPiece([g EXCEPT !.grid = MergeCells(g.grid, g.currentPiece)], rnd)

mergePiece(g, rnd) ==
    spawnPiece(checkLines([g EXCEPT !.grid = MergeCells(g.grid, g.currentPiece)]), rnd)

----------------------------------------------------------------------------
(* Rotation and hold                                                       *)

Rotated(coords) == [i \in 1 .. Len(coords) |-> << -coords[i][2], coords[i][1] >>]

\* faulty variant: the right kick is tried before the left one
kicksRightFirst == <<0, 1, -1, -2, 2>>

kicks == <<0, -1, 1, -2, 2>>

\* faulty variant: the rotated piece is accepted where it is, untested
TryKicksUntested(grid, p, backupCoords, k) == p

\* faulty variant: a refused rotation keeps the rotated coords
RECURSIVE TryKicksNoRestore(_, _, _, _)
TryKicksNoRestore(grid, p, backupCoords, k) ==
    IF k > Len(kicks) THEN p
    ELSE IF ~checkCollision(grid, kicks[k], 0, p)
         THEN [p EXCEPT !.x = p.x + kicks[k]]
         ELSE TryKicksNoRestore(grid, p, backupCoords, k + 1)

\* faulty variant: an accepted rotation also lifts the piece by one row
RECURSIVE TryKicksLifts(_, _, _, _)
TryKicksLifts(grid, p, backupCoords, k) ==
    IF k > Len(kicks) THEN [p EXCEPT !.coords = backupCoords]
    ELSE IF ~checkCollision(grid, kicks[k], 0, p)
         THEN [p EXCEPT !.x = p.x + kicks[k], !.y = p.y + 1]
         ELSE TryKicksLifts(grid, p, backupCoords, k + 1)

\* the loop over kicks from index k on; p already carries the rotated coords
RECURSIVE TryKicks(_, _, _, _)
TryKicks(grid, p, backupCoords, k) ==
    IF k > Len(kicks) THEN [p EXCEPT !.coords = backupCoords]
    ELSE IF ~checkCollision(grid, kicks[k], 0, p)
         THEN [p EXCEPT !.x = p.x + kicks[k]]
         ELSE TryKicks(grid, p, backupCoords, k + 1)

\* faulty variant: a rotation every kick refuses is tried again one row up
rotatePieceFloorKick(g) ==
    LET p == g.currentPiece
        r == [p EXCEPT !.coords = Rotated(p.coords)]
        t == TryKicks(g.grid, r, p.coords, 1)
    IN  IF t.coords = p.coords /\ ~checkCollision(g.grid, 0, 1, r)
        THEN [g EXCEPT !.currentPiece = [r EXCEPT !.y = @ + 1]]
        ELSE [g EXCEPT !.currentPiece = t]

rotatePiece(g) ==
    LET p == g.currentPiece
    IN  [g EXCEPT !.currentPiece =
            TryKicks(g.grid, [p EXCEPT !.coords = Rotated(p.coords)], p.coords, 1)]

\* faulty variant: the swapped-in piece stays where the active piece was
holdPieceKeepsPlace(g, rnd) ==
    IF ~g.canHold THEN g
    ELSE LET currentType == g.currentPiece.type
             stored == getRandomPiece(currentType)
         IN  IF g.heldPiece # NULL
             THEN LET g1 == [g EXCEPT !.canHold = FALSE,
                                      !.heldPiece = stored,
                                      !.currentPiece = WithAnchor(g.heldPiece,
                                            g.currentPiece.x, g.currentPiece.y)]
                  IN  IF checkCollision(g1.grid, 0, 0, g1.currentPiece)
                      THEN gameOver(g1) ELSE g1
             ELSE spawnPiece([g EXCEPT !.canHold = FALSE, !.heldPiece = stored], rnd)

\* faulty variant: with the slot empty the active piece is locked, not discarded
holdPieceLocksActive(g, rnd) ==
    IF ~g.canHold THEN g
    ELSE LET currentType == g.currentPiece.type
             stored == getRandomPiece(currentType)
         IN  IF g.heldPiece # NULL
             THEN LET g1 == [g EXCEPT !.canHold = FALSE,
                                      !.heldPiece = stored,
                                      !.currentPiece = AtSpawn(g.heldPiece)]
                  IN  IF checkCollision(g1.grid, 0, 0, g1.currentPiece)
                      THEN gameOver(g1) ELSE g1
             ELSE spawnPiece([g EXCEPT !.canHold = FALSE, !.heldPiece = stored,
                                       !.grid = MergeCells(g.grid, g.currentPiece)], rnd)

\* faulty variant: the swapped-in piece is not tested at the spawn anchor
holdPieceUnchecked(g, rnd) ==
    IF ~g.canHold THEN g
    ELSE LET currentType == g.currentPiece.type
             stored == getRandomPiece(currentType)
         IN  IF g.heldPiece # NULL
             THEN [g EXCEPT !.canHold = FALSE,
                            !.heldPiece = stored,
                            !.currentPiece = AtSpawn(g.heldPiece)]
             ELSE spawnPiece([g EXCEPT !.canHold = FALSE, !.heldPiece = stored], rnd)

\* faulty variant: a hold restarts the gravity timer
holdPieceRestartsTimer(g, rnd) ==
    IF ~g.canHold THEN g
    ELSE LET currentType == g.currentPiece.type
             stored == getRandomPiece(currentType)
         IN  IF g.heldPiece # NULL
             THEN LET g1 == [g EXCEPT !.canHold = FALSE, !.dropCounter = 0,
                                      !.heldPiece = stored,
                                      !.currentPiece = AtSpawn(g.heldPiece)]
                  IN  IF checkCollision(g1.grid, 0, 0, g1.currentPiece)
                      THEN gameOver(g1) ELSE g1
             ELSE spawnPiece([g EXCEPT !.canHold = FALSE, !.dropCounter = 0,
                                       !.heldPiece = stored], rnd)

holdPiece(g, rnd) ==
    IF ~g.canHold THEN g
    ELSE LET currentType == g.currentPiece.type
             stored == getRandomPiece(currentType)
         IN  IF g.heldPiece # NULL
             THEN LET g1 == [g EXCEPT !.canHold = FALSE,
                                      !.heldPiece = stored,
                                      !.currentPiece = AtSpawn(g.heldPiece)]
                  IN  IF checkCollision(g1.grid, 0, 0, g1.currentPiece)
                      THEN gameOver(g1) ELSE g1
             ELSE spawnPiece([g EXCEPT !.canHold = FALSE, !.heldPiece = stored], rnd)

----------------------------------------------------------------------------
(* Reset, frame loop, keyboard                                             *)

\* faulty variant: the hold slot survives the reset
resetGameKeepsSlot(g, rnd) ==
    spawnPiece([updateHud([g EXCEPT !.grid = createEmptyGrid,
                         !.score = 0,
                         !.level = 1,
                         !.linesCleared = 0,
                         !.dropInterval = baseDropInterval,
                         !.isGameOver = FALSE,
                         !.isPaused = FALSE])
                   EXCEPT !.nextPiece = getRandomPiece(rnd[1])],
               Tail(rnd))

resetGame(g, rnd) ==
    spawnPiece([updateHud([g EXCEPT !.grid = createEmptyGrid,
                         !.score = 0,
                         !.level = 1,
                         !.linesCleared = 0,
                         !.dropInterval = baseDropInterval,
                         !.isGameOver = FALSE,
                         !.isPaused = FALSE,
                         !.heldPiece = NULL])
                   EXCEPT !.nextPiece = getRandomPiece(rnd[1])],
               Tail(rnd))

MoveBy(g, dx, dy) ==
    [g EXCEPT !.currentPiece.x = @ + dx, !.currentPiece.y = @ + dy]

\* faulty variant: gravity does not stop while the game is paused
animateWhilePaused(g, deltaTime, rnd) ==
    IF ~g.isGameOver
    THEN LET g1 == [g EXCEPT !.dropCounter = @ + deltaTime]
         IN  IF g1.dropCounter > g1.dropInterval
             THEN LET g2 == IF ~checkCollision(g1.grid, 0, -1, g1.currentPiece)
                            THEN MoveBy(g1, 0, -1)
                            ELSE mergePiece(g1, rnd)
                  IN  [g2 EXCEPT !.dropCounter = 0]
             ELSE g1
    ELSE g

\* faulty variant: gravity goes on after the game is over
animateAfterGameOver(g, deltaTime, rnd) ==
    IF ~g.isPaused
    THEN LET g1 == [g EXCEPT !.dropCounter = @ + deltaTime]
         IN  IF g1.dropCounter > g1.dropInterval
             THEN LET g2 == IF ~checkCollision(g1.grid, 0, -1, g1.currentPiece)
                            THEN MoveBy(g1, 0, -1)
                            ELSE mergePiece(g1, rnd)
                  IN  [g2 EXCEPT !.dropCounter = 0]
             ELSE g1
    ELSE g

\* faulty variant: gravity acts as soon as the counter reaches the interval
animateAtInterval(g, deltaTime, rnd) ==
    IF ~g.isPaused /\ ~g.isGameOver
    THEN LET g1 == [g EXCEPT !.dropCounter = @ + deltaTime]
         IN  IF g1.dropCounter >= g1.dropInterval
             THEN LET g2 == IF ~checkCollision(g1.grid, 0, -1, g1.currentPiece)
                            THEN MoveBy(g1, 0, -1)
                            ELSE mergePiece(g1, rnd)
                  IN  [g2 EXCEPT !.dropCounter = 0]
             ELSE g1
    ELSE g

\* the game part of animate(time), deltaTime being time - lastTime
\* faulty variant: a row gone down by gravity is paid like a soft drop
animatePaysGravity(g, deltaTime, rnd) ==
    IF ~g.isPaused /\ ~g.isGameOver
    THEN LET g1 == [g EXCEPT !.dropCounter = @ + deltaTime]
         IN  IF g1.dropCounter > g1.dropInterval
             THEN LET g2 == IF ~checkCollision(g1.grid, 0, -1, g1.currentPiece)
                            THEN [MoveBy(g1, 0, -1) EXCEPT !.score = @ + softDropScore]
                            ELSE mergePiece(g1, rnd)
                  IN  [g2 EXCEPT !.dropCounter = 0]
             ELSE g1
    ELSE g

animate(g, deltaTime, rnd) ==
    IF ~g.isPaused /\ ~g.isGameOver
    THEN LET g1 == [g EXCEPT !.dropCounter = @ + deltaTime]
         IN  IF g1.dropCounter > g1.dropInterval
             THEN LET g2 == IF ~checkCollision(g1.grid, 0, -1, g1.currentPiece)
                            THEN MoveBy(g1, 0, -1)
                            ELSE mergePiece(g1, rnd)
                  IN  [g2 EXCEPT !.dropCounter = 0]
             ELSE g1
    ELSE g

\* faulty variant: the first probe is at the piece's own row
RECURSIVE GhostLoopFromOwnRow(_, _)
GhostLoopFromOwnRow(g, dropDist) ==
    IF ~checkCollision(g.grid, 0, -dropDist, g.currentPiece)
    THEN GhostLoopFromOwnRow(g, dropDist + 1)
    ELSE dropDist

\* while (!this.checkCollision(0, -(dropDist + 1))) dropDist++
RECURSIVE GhostLoop(_, _)
GhostLoop(g, dropDist) ==
    IF ~checkCollision(g.grid, 0, -(dropDist + 1), g.currentPiece)
    THEN GhostLoop(g, dropDist + 1)
    ELSE dropDist

\* updateGhostPosition: the game with the positions given to the four ghost
\* meshes, and the number of probes that found the offset free
updateGhostPosition(g) ==
    LET dropDist == GhostLoop(g, 0)
        p == g.currentPiece
    IN  [dropDist |-> dropDist,
         ghostMeshes |-> [i \in 1 .. 4 |->
                            <<p.x + p.coords[i][1], (p.y + p.coords[i][2]) - dropDist>>]]
        @@ g

\* the while loop of the hard drop
\* faulty variant: the loop tests the collision after the move, one row late
RECURSIVE HardDropTooFar(_)
HardDropTooFar(g) ==
    LET g1 == [MoveBy(g, 0, -1) EXCEPT !.score = @ + hardDropScore]
    IN  IF ~checkCollision(g.grid, 0, -1, g.currentPiece) THEN HardDropTooFar(g1) ELSE g1

\* faulty variant: the rows descended are not paid
RECURSIVE HardDropLoopUnpaid(_)
HardDropLoopUnpaid(g) ==
    IF ~checkCollision(g.grid, 0, -1, g.currentPiece)
    THEN HardDropLoopUnpaid(MoveBy(g, 0, -1))
    ELSE g

RECURSIVE HardDropLoop(_)
HardDropLoop(g) ==
    IF ~checkCollision(g.grid, 0, -1, g.currentPiece)
    THEN HardDropLoop([MoveBy(g, 0, -1) EXCEPT !.score = @ + hardDropScore])
    ELSE g

\* faulty variant: a soft drop is paid even when the piece cannot go down
handleInputPaysAtRest(g, key, rnd) ==
    IF g.isGameOver
    THEN IF key = " " THEN resetGame(g, rnd) ELSE g
    ELSE IF key \in {"p", "P"}
    THEN [g EXCEPT !.isPaused = ~g.isPaused]
    ELSE IF g.isPaused THEN g
    ELSE CASE key = "ArrowLeft" ->
                IF ~checkCollision(g.grid, -1, 0, g.currentPiece) THEN MoveBy(g, -1, 0) ELSE g
           [] key = "ArrowRight" ->
                IF ~checkCollision(g.grid, 1, 0, g.currentPiece) THEN MoveBy(g, 1, 0) ELSE g
           [] key = "ArrowDown" ->
                IF ~checkCollision(g.grid, 0, -1, g.currentPiece)
                THEN updateHud([MoveBy(g, 0, -1) EXCEPT !.score = @ + softDropScore])
                ELSE updateHud([g EXCEPT !.score = @ + softDropScore])
           [] key = "ArrowUp" -> rotatePiece(g)
           [] key = " " ->
                [mergePiece(updateHud(HardDropLoop(g)), rnd) EXCEPT !.dropCounter = 0]
           [] key \in {"c", "C"} -> holdPiece(g, rnd)
           [] OTHER -> g

\* faulty variant: the keys are not refused while the game is paused
handleInputUngated(g, key, rnd) ==
    IF g.isGameOver
    THEN IF key = " " THEN resetGame(g, rnd) ELSE g
    ELSE IF key \in {"p", "P"}
    THEN [g EXCEPT !.isPaused = ~g.isPaused]
    ELSE CASE key = "ArrowLeft" ->
                IF ~checkCollision(g.grid, -1, 0, g.currentPiece) THEN MoveBy(g, -1, 0) ELSE g
           [] key = "ArrowRight" ->
                IF ~checkCollision(g.grid, 1, 0, g.currentPiece) THEN MoveBy(g, 1, 0) ELSE g
           [] key = "ArrowDown" ->
                IF ~checkCollision(g.grid, 0, -1, g.currentPiece)
                THEN updateHud([MoveBy(g, 0, -1) EXCEPT !.score = @ + softDropScore])
                ELSE g
           [] key = "ArrowUp" -> rotatePiece(g)
           [] key = " " ->
                [mergePiece(updateHud(HardDropLoop(g)), rnd) EXCEPT !.dropCounter = 0]
           [] key \in {"c", "C"} -> holdPiece(g, rnd)
           [] OTHER -> g

\* faulty variant: the move to the left is made without the collision test
handleInputLeftUntested(g, key, rnd) ==
    IF g.isGameOver
    THEN IF key = " " THEN resetGame(g, rnd) ELSE g
    ELSE IF key \in {"p", "P"}
    THEN [g EXCEPT !.isPaused = ~g.isPaused]
    ELSE IF g.isPaused THEN g
    ELSE CASE key = "ArrowLeft" ->
                MoveBy(g, -1, 0)
           [] key = "ArrowRight" ->
                IF ~checkCollision(g.grid, 1, 0, g.currentPiece) THEN MoveBy(g, 1, 0) ELSE g
           [] key = "ArrowDown" ->
                IF ~checkCollision(g.grid, 0, -1, g.currentPiece)
                THEN updateHud([MoveBy(g, 0, -1) EXCEPT !.score = @ + softDropScore])
                ELSE g
           [] key = "ArrowUp" -> rotatePiece(g)
           [] key = " " ->
                [mergePiece(updateHud(HardDropLoop(g)), rnd) EXCEPT !.dropCounter = 0]
           [] key \in {"c", "C"} -> holdPiece(g, rnd)
           [] OTHER -> g

\* faulty variant: the soft drop changes the score without refreshing the HUD
handleInputStaleHud(g, key, rnd) ==
    IF g.isGameOver
    THEN IF key = " " THEN resetGame(g, rnd) ELSE g
    ELSE IF key \in {"p", "P"}
    THEN [g EXCEPT !.isPaused = ~g.isPaused]
    ELSE IF g.isPaused THEN g
    ELSE CASE key = "ArrowLeft" ->
                IF ~checkCollision(g.grid, -1, 0, g.currentPiece) THEN MoveBy(g, -1, 0) ELSE g
           [] key = "ArrowRight" ->
                IF ~checkCollision(g.grid, 1, 0, g.currentPiece) THEN MoveBy(g, 1, 0) ELSE g
           [] key = "ArrowDown" ->
                IF ~checkCollision(g.grid, 0, -1, g.currentPiece)
                THEN [MoveBy(g, 0, -1) EXCEPT !.score = @ + softDropScore]
                ELSE g
           [] key = "ArrowUp" -> rotatePiece(g)
           [] key = " " ->
                [mergePiece(updateHud(HardDropLoop(g)), rnd) EXCEPT !.dropCounter = 0]
           [] key \in {"c", "C"} -> holdPiece(g, rnd)
           [] OTHER -> g

\* faulty variant: a move to the side restarts the gravity timer
handleInputRestartsTimer(g, key, rnd) ==
    IF g.isGameOver
    THEN IF key = " " THEN resetGame(g, rnd) ELSE g
    ELSE IF key \in {"p", "P"}
    THEN [g EXCEPT !.isPaused = ~g.isPaused]
    ELSE IF g.isPaused THEN g
    ELSE CASE key = "ArrowLeft" ->
                IF ~checkCollision(g.grid, -1, 0, g.currentPiece) THEN [MoveBy(g, -1, 0) EXCEPT !.dropCounter = 0] ELSE g
           [] key = "ArrowRight" ->
                IF ~checkCollision(g.grid, 1, 0, g.currentPiece) THEN [MoveBy(g, 1, 0) EXCEPT !.dropCounter = 0] ELSE g
           [] key = "ArrowDown" ->
                IF ~checkCollision(g.grid, 0, -1, g.currentPiece)
                THEN updateHud([MoveBy(g, 0, -1) EXCEPT !.score = @ + softDropScore])
                ELSE g
           [] key = "ArrowUp" -> rotatePiece(g)
           [] key = " " ->
                [mergePiece(updateHud(HardDropLoop(g)), rnd) EXCEPT !.dropCounter = 0]
           [] key \in {"c", "C"} -> holdPiece(g, rnd)
           [] OTHER -> g

handleInput(g, key, rnd) ==
    IF g.isGameOver
    THEN IF key = " " THEN resetGame(g, rnd) ELSE g
    ELSE IF key \in {"p", "P"}
    THEN [g EXCEPT !.isPaused = ~g.isPaused]
    ELSE IF g.isPaused THEN g
    ELSE CASE key = "ArrowLeft" ->
                IF ~checkCollision(g.grid, -1, 0, g.currentPiece) THEN MoveBy(g, -1, 0) ELSE g
           [] key = "ArrowRight" ->
                IF ~checkCollision(g.grid, 1, 0, g.currentPiece) THEN MoveBy(g, 1, 0) ELSE g
           [] key = "ArrowDown" ->
                IF ~checkCollision(g.grid, 0, -1, g.currentPiece)
                THEN updateHud([MoveBy(g, 0, -1) EXCEPT !.score = @ + softDropScore])
                ELSE g
           [] key = "ArrowUp" -> rotatePiece(g)
           [] key = " " ->
                [mergePiece(updateHud(HardDropLoop(g)), rnd) EXCEPT !.dropCounter = 0]
           [] key \in {"c", "C"} -> holdPiece(g, rnd)
           [] OTHER -> g

----------------------------------------------------------------------------
(* The position a game is followed from.  The 10 x 20 board is too large   *)
(* to follow every game from the constructor, so play starts from a stack  *)
(* that play reaches: the pieces are locked one by one with the program's  *)
(* own cell writes, each dropped straight down onto its resting place and  *)
(* none completing a row (StackBuilt). The stack leaves column 4 open down *)
(* to the floor, a dip on columns 3 and 4 of row 14 and a one-cell bump at *)
(* (2, 15); rows 16..19 are free.                                          *)

RECURSIVE RotatedTimes(_, _)
RotatedTimes(coords, n) == IF n = 0 THEN coords ELSE RotatedTimes(Rotated(coords), n - 1)

Placed(kind, turns, x, y) ==
    [type |-> kind, coords |-> RotatedTimes(SHAPES[kind].coords, turns),
     color |-> SHAPES[kind].color, x |-> x, y |-> y]

\* the stack, in the order its pieces are locked: three layers of four rows,
\* each an upright I in column 9 and two flat I per row, which leaves column 4
\* open, then the pieces of the top
LayerPieces(k) ==
    << Placed("I", 1, 9, 4 * k + 1) >>
    \o [i \in 1 .. 8 |-> Placed("I", 0, IF i % 2 = 1 THEN 1 ELSE 6, 4 * k + (i - 1) \div 2)]

TopPieces ==
    << Placed("I", 1, 9, 13),
       Placed("I", 0, 1, 12), Placed("I", 0, 6, 12),
       Placed("I", 0, 1, 13), Placed("I", 0, 6, 13),
       Placed("I", 0, 6, 14), Placed("J", 2, 2, 15) >>

\* piece p can be brought from the spawn row straight down to where it is,
\* rests there, and completes no row when it is locked
Droppable(grid, p) ==
    /\ \A dy \in 0 .. (SpawnY - 1) - p.y : ~checkCollision(grid, 0, dy, p)
    /\ checkCollision(grid, 0, -1, p)
    /\ LinesToClear(MergeCells(grid, p)) = {}

\* the grid after locking the pieces one by one, as far as they can be dropped
RECURSIVE DropAll(_, _)
DropAll(grid, pieces) ==
    IF pieces = <<>> THEN grid
    ELSE IF Droppable(grid, Head(pieces))
         THEN DropAll(MergeCells(grid, Head(pieces)), Tail(pieces))
         ELSE grid

Layer1 == DropAll(createEmptyGrid, LayerPieces(0))
Layer2 == DropAll(Layer1, LayerPieces(1))
Layer3 == DropAll(Layer2, LayerPieces(2))
StackGrid == DropAll(Layer3, TopPieces)

Occupied(grid) == {c \in Cols \X Rows : grid[c[1]][c[2]] # 0}

\* every piece of the list found its place
StackBuilt ==
    Cardinality(Occupied(StackGrid)) = 4 * (3 * Len(LayerPieces(0)) + Len(TopPieces))

\* the session after two clears of four rows each on an otherwise idle game
\* (no soft or hard drop): checkLines run twice on four full rows
FourFullRows == [x \in Cols |-> [y \in Rows |-> IF y < 4 THEN SHAPES.I.color ELSE 0]]

FreshFields ==
    [grid |-> createEmptyGrid,
     currentPiece |-> NULL,
     nextPiece |-> NULL,
     heldPiece |-> NULL,
     canHold |-> TRUE,
     score |-> 0,
     level |-> 1,
     linesCleared |-> 0,
     dropInterval |-> baseDropInterval,
     dropCounter |-> 0,
     isPaused |-> FALSE,
     isGameOver |-> FALSE,
     hud |-> HudAsLoaded]

\* the fields after the constructor: init() draws nextPiece, then spawns
Constructed(rnd) ==
    spawnPiece([FreshFields EXCEPT !.nextPiece = getRandomPiece(rnd[1])], Tail(rnd))

RECURSIVE AfterTetrises(_, _)
AfterTetrises(g, n) ==
    IF n = 0 \/ g.isGameOver THEN g
    ELSE AfterTetrises(checkLines([g EXCEPT !.grid = FourFullRows]), n - 1)

\* sessions of 8, 32, ... 128 lines, each continuing the one before
Session8 == AfterTetrises(FreshFields, 2)
Session32 == AfterTetrises(Session8, 6)
Session64 == AfterTetrises(Session32, 8)
Session96 == AfterTetrises(Session64, 8)
Session128 == AfterTetrises(Session96, 8)

\* mid-game: the stack is up, `cur` has just spawned, `nxt` is announced
MidGame(cur, nxt, session) ==
    [session EXCEPT
        !.grid = StackGrid,
        !.currentPiece = AtSpawn(getRandomPiece(cur)),
        !.nextPiece = getRandomPiece(nxt)]

KindSet == {KEYS[i] : i \in 1 .. Len(KEYS)}

\* how a followed game starts: the kind in play and the session behind it
\* (8 lines: level 1; 128 lines: level 13)
Starts ==
    {[cur |-> "I", session |-> Session8],
     [cur |-> "T", session |-> Session8],
     [cur |-> "I", session |-> Session128]}

----------------------------------------------------------------------------
(* History                                                                 *)

\* steps of the active piece that are followed after the first lock
MaxTail == 1

NoObservation == [op |-> "other", kick |-> 0, legal |-> {}, onEmpty |-> 0, written |-> 0]

Playing(g) == ~g.isPaused /\ ~g.isGameOver

\* the kicks at which the rotated active piece would not collide
LegalKicks(g) ==
    LET p == [g.currentPiece EXCEPT !.coords = Rotated(g.currentPiece.coords)]
    IN  {kicks[k] : k \in {j \in 1 .. Len(kicks) : ~checkCollision(g.grid, kicks[j], 0, p)}}

\* what a rotation from g to g2 was seen to do
RotateSeen(g, g2) ==
    [NoObservation EXCEPT
        !.op = IF g2.currentPiece.coords = g.currentPiece.coords
               THEN "rotate-refused" ELSE "rotate",
        !.kick = g2.currentPiece.x - g.currentPiece.x,
        !.legal = LegalKicks(g)]

\* what locking piece p into grid was seen to do, before lines are cleared
LockSeen(grid, p) ==
    LET merged == MergeCells(grid, p)
    IN
    [NoObservation EXCEPT
        !.op = "lock",
        !.onEmpty = Cardinality({i \in 1 .. Len(p.coords) :
                        LET x == p.x + p.coords[i][1]
                            y == p.y + p.coords[i][2]
                        IN  x \in Cols /\ y \in Rows /\ grid[x][y] = 0}),
        !.written = Cardinality({c \in Cols \X Rows :
                        merged[c[1]][c[2]] # grid[c[1]][c[2]]})]

\* a game is followed while its active piece may still be moved: up to the
\* first lock, and MaxTail steps further
CanAct == nLocks = 0 \/ tail < MaxTail

\* frames and keys reach a game in play only within that horizon
Allowed == Playing(game) => CanAct

\* `tail` after a frame or a key
TailAfter == IF Playing(game) /\ nLocks > 0 THEN tail + 1 ELSE tail

Draws == env.bag \X env.bag
NoDraw == <<>>

----------------------------------------------------------------------------
(* Steps                                                                   *)

Init ==
    /\ StackBuilt
    /\ env = [bag |-> {"T"}, deltas |-> {1001}]
    /\ \E s \in Starts : game = MidGame(s.cur, "O", s.session)
    /\ nLocks = 0
    /\ tail = 0
    /\ last = NoObservation

\* the frame locks the active piece: gravity is due and the piece cannot descend
LocksOnTick(g, d) ==
    /\ Playing(g)
    /\ g.dropCounter + d > g.dropInterval
    /\ checkCollision(g.grid, 0, -1, g.currentPiece)

\* a frame: animate(lastTime + d)
Tick ==
    /\ Allowed
    /\ \E d \in env.deltas, rnd \in Draws :
          /\ game' = animate(game, d, rnd)
          /\ nLocks' = IF LocksOnTick(game, d) THEN nLocks + 1 ELSE nLocks
          /\ last' = IF LocksOnTick(game, d)
                     THEN LockSeen(game.grid, game.currentPiece) ELSE NoObservation
    /\ tail' = TailAfter
    /\ UNCHANGED env

MoveLeft ==
    /\ Allowed
    /\ game' = handleInput(game, "ArrowLeft", NoDraw)
    /\ tail' = TailAfter
    /\ last' = NoObservation
    /\ UNCHANGED <<env, nLocks>>

MoveRight ==
    /\ Allowed
    /\ game' = handleInput(game, "ArrowRight", NoDraw)
    /\ tail' = TailAfter
    /\ last' = NoObservation
    /\ UNCHANGED <<env, nLocks>>

SoftDrop ==
    /\ Allowed
    /\ game' = handleInput(game, "ArrowDown", NoDraw)
    /\ tail' = TailAfter
    /\ last' = NoObservation
    /\ UNCHANGED <<env, nLocks>>

Rotate ==
    /\ Allowed
    /\ game' = handleInput(game, "ArrowUp", NoDraw)
    /\ tail' = TailAfter
    /\ last' = IF Playing(game) THEN RotateSeen(game, game') ELSE NoObservation
    /\ UNCHANGED <<env, nLocks>>

\* the space bar while the game is not over: hard drop (nothing when paused)
HardDrop ==
    /\ ~game.isGameOver
    /\ Allowed
    /\ \E rnd \in Draws : game' = handleInput(game, " ", rnd)
    /\ nLocks' = IF Playing(game) THEN nLocks + 1 ELSE nLocks
    /\ tail' = TailAfter
    /\ last' = IF Playing(game)
               THEN LockSeen(game.grid, HardDropLoop(game).currentPiece) ELSE NoObservation
    /\ UNCHANGED env

\* the space bar after game over: resetGame
Reset ==
    /\ game.isGameOver
    /\ \E rnd \in Draws : game' = handleInput(game, " ", rnd)
    /\ last' = [NoObservation EXCEPT !.op = "reset"]
    /\ UNCHANGED <<env, nLocks, tail>>

Hold ==
    /\ Allowed
    /\ \E rnd \in Draws : game' = handleInput(game, "c", rnd)
    /\ tail' = TailAfter
    /\ last' = [NoObservation EXCEPT
                   !.op = IF Playing(game) /\ game.canHold THEN "hold" ELSE "other"]
    /\ UNCHANGED <<env, nLocks>>

TogglePause ==
    /\ game' = handleInput(game, "p", NoDraw)
    /\ last' = NoObservation
    /\ UNCHANGED <<env, nLocks, tail>>

Next ==
    \/ Tick
    \/ MoveLeft
    \/ MoveRight
    \/ SoftDrop
    \/ Rotate
    \/ HardDrop
    \/ Reset
    \/ Hold
    \/ TogglePause

Spec == Init /\ [][Next]_vars

----------------------------------------------------------------------------
(* Games followed from other positions and with frames of several lengths: *)
(* a new game, and positions of the mid-game reached by the inputs listed. *)

\* an input: a frame 1001 ms after the one before, or a key
Frame(rnd) == [key |-> "frame", rnd |-> rnd]
Key(key, rnd) == [key |-> key, rnd |-> rnd]

\* the game after the inputs, each a frame or a key
RECURSIVE Replay(_, _)
Replay(g, inputs) ==
    IF inputs = <<>> \/ g.isGameOver THEN g
    ELSE LET i == Head(inputs)
         IN  Replay(IF i.key = "frame" THEN animate(g, 1001, i.rnd)
                    ELSE handleInput(g, i.key, i.rnd),
                    Tail(inputs))

\* an I stands upright over the open column 4
OverWell ==
    Replay(MidGame("I", "O", Session8),
           << Frame(NoDraw), Key("ArrowUp", NoDraw), Key("ArrowRight", NoDraw) >>)

\* a T has been locked upright on the bump of column 2, reaching row 18
UprightTOnBump ==
    << Frame(NoDraw), Key("ArrowUp", NoDraw), Key("ArrowLeft", NoDraw),
       Key("ArrowLeft", NoDraw), Key(" ", <<"I">>) >>

\* ... with the slot empty, an O in play and an I announced
TallEmptySlot == Replay(MidGame("T", "O", Session8), UprightTOnBump)

\* ... with an I in the slot, an O in play and an I announced
TallHeldI ==
    Replay(MidGame("I", "T", Session8), << Key("c", <<"O">>) >> \o UprightTOnBump)

FrameBag == {"I", "O"}

FrameStarts ==
    {Constructed(rnd) : rnd \in FrameBag \X FrameBag}
        \cup {OverWell, TallEmptySlot, TallHeldI}

\* the inputs led where they were meant to
StartsReached ==
    /\ OverWell.currentPiece = Placed("I", 1, 4, 17)
    /\ TallEmptySlot.grid[2][18] # 0
    /\ TallEmptySlot.heldPiece = NULL
    /\ TallHeldI.grid = TallEmptySlot.grid
    /\ TallHeldI.heldPiece.type = "I"
    /\ \A g \in {TallEmptySlot, TallHeldI} :
          /\ Playing(g)
          /\ g.canHold
          /\ g.currentPiece = AtSpawn(getRandomPiece("O"))
          /\ g.nextPiece.type = "I"

InitFrames ==
    /\ StackBuilt
    /\ StartsReached
    /\ env = [bag |-> FrameBag, deltas |-> {300, 700, 2500}]
    /\ game \in FrameStarts
    /\ nLocks = 0
    /\ tail = 0
    /\ last = NoObservation

\* the piece is not moved by the arrow keys: it comes down by gravity or by
\* the hard drop, where it spawned or where the inputs above left it
NextFrames ==
    \/ Tick
    \/ HardDrop
    \/ Hold
    \/ TogglePause
    \/ Reset

SpecFrames == InitFrames /\ [][NextFrames]_vars

----------------------------------------------------------------------------
(* checkLines on its own: the grids it is given are stacks of packed rows, *)
(* each row full or with one gap, under empty rows; the session counters   *)
(* are those of a game some clears old.                                    *)

\* number of packed rows of a grid given to checkLines
MaxRows == 5

RowKinds == {"full", "gapLeft", "gapRight"}

\* rows are told apart by their colour
RowColor(y) == SHAPES[KEYS[(y % Len(KEYS)) + 1]].color

PackedGrid(rows) ==
    [x \in Cols |-> [y \in Rows |->
        IF y >= Len(rows) THEN 0
        ELSE IF rows[y + 1] = "gapLeft" /\ x = 0 THEN 0
        ELSE IF rows[y + 1] = "gapRight" /\ x = GRID_WIDTH - 1 THEN 0
        ELSE RowColor(y)]]

LineSessions == {FreshFields, Session8, Session96, Session128}

InitLines ==
    /\ \E s \in LineSessions, rows \in [1 .. MaxRows -> RowKinds] :
          game = [s EXCEPT !.grid = PackedGrid(rows)]
    /\ env = [bag |-> {}, deltas |-> {}]
    /\ nLocks = 0
    /\ tail = 0
    /\ last = NoObservation

\* one call of checkLines
ClearLines ==
    /\ last.op # "checkLines"
    /\ game' = checkLines(game)
    /\ last' = [op |-> "checkLines", before |-> game]
    /\ UNCHANGED <<env, nLocks, tail>>

NextLines == ClearLines

SpecLines == InitLines /\ [][NextLines]_vars

----------------------------------------------------------------------------
(* The page: initGame builds the game behind the start modal; each click   *)
(* on the play button sets a 500 ms timer whose callback calls animate(0); *)
(* animate registers itself for the next frame. The browser holds the      *)
(* timers, the frame requests and the keydown listener.                    *)

\* clicks on the play button, and frame requests the browser hands out
MaxClicks == 2
MaxRequests == 4

\* this.rafId = null: request ids are positive, 0 stands for null
NoRequest == 0

\* the game object when initGame has built it, with the fields of the loop
Loaded(rnd) == Constructed(rnd) @@ [rafId |-> NoRequest, lastTime |-> 0]

\* the browser when initGame returns: init() has registered the keydown
\* listener, no timer and no frame request is pending
BrowserAtLoad ==
    [bag |-> {"T"}, deltas |-> {0, 1001}, keydown |-> TRUE, timers |-> 0,
     frames |-> {}, nextId |-> 1, now |-> 0, clicks |-> 0]

\* animate(time): the request for the next frame comes first, then the frame
animateAt(g, e, time, rnd) ==
    LET asked == [g EXCEPT !.rafId = e.nextId, !.lastTime = time]
    IN  [game |-> animate(asked, time - g.lastTime, rnd),
         env |-> [e EXCEPT !.frames = @ \cup {e.nextId}, !.nextId = @ + 1]]

\* destroy(): cancels the request this.rafId names, removes the listeners
destroy(g, e) ==
    [game |-> [g EXCEPT !.rafId = NoRequest],
     env |-> [e EXCEPT !.frames = IF g.rafId # NoRequest THEN @ \ {g.rafId} ELSE @,
                       !.keydown = FALSE]]

\* what is followed: the last handler run, the destroy calls made, and
\* whether a start was still to come when destroy was first called
LoopStart == [op |-> "load", destroyed |-> 0, lateStart |-> FALSE]

Seen(op) == [last EXCEPT !.op = op]

InitLoop ==
    /\ \E rnd \in {"T"} \X {"T"} : game = Loaded(rnd)
    /\ env = BrowserAtLoad
    /\ nLocks = 0
    /\ tail = 0
    /\ last = LoopStart

\* the click handler of the play button: it sets the timer
ClickPlay ==
    /\ env.clicks < MaxClicks
    /\ env' = [env EXCEPT !.timers = @ + 1, !.clicks = @ + 1]
    /\ last' = [last EXCEPT !.op = "click", !.lateStart = @ \/ last.destroyed > 0]
    /\ UNCHANGED <<game, nLocks, tail>>

\* the timer's callback: game.animate(0)
PlayTimeout ==
    /\ env.timers > 0
    /\ env.nextId <= MaxRequests
    /\ \E rnd \in Draws :
          LET page == animateAt(game, [env EXCEPT !.timers = @ - 1], 0, rnd)
          IN  game' = page.game /\ env' = page.env
    /\ last' = Seen("start")
    /\ UNCHANGED <<nLocks, tail>>

\* the browser runs a pending frame callback: this.animate(t)
FrameCallback ==
    /\ env.nextId <= MaxRequests
    /\ \E id \in env.frames, d \in env.deltas, rnd \in Draws :
          LET e == [env EXCEPT !.frames = @ \ {id}, !.now = @ + d]
              page == animateAt(game, e, e.now, rnd)
          IN  game' = page.game /\ env' = page.env
    /\ last' = Seen("frame")
    /\ UNCHANGED <<nLocks, tail>>

LoopKeys == {"ArrowLeft", "p"}

\* a keydown event while the listener is registered
KeyDown ==
    /\ env.keydown
    /\ \E key \in LoopKeys : game' = handleInput(game, key, NoDraw)
    /\ last' = Seen("keydown")
    /\ UNCHANGED <<env, nLocks, tail>>

\* destroy() is called, at most twice
Destroy ==
    /\ last.destroyed < 2
    /\ LET page == destroy(game, env)
       IN  game' = page.game /\ env' = page.env
    /\ last' = [op |-> "destroy", destroyed |-> last.destroyed + 1,
                lateStart |-> last.lateStart \/ (last.destroyed = 0 /\ env.timers > 0)]
    /\ UNCHANGED <<nLocks, tail>>

NextLoop ==
    \/ ClickPlay
    \/ PlayTimeout
    \/ FrameCallback
    \/ KeyDown
    \/ Destroy

SpecLoop == InitLoop /\ [][NextLoop]_vars

----------------------------------------------------------------------------
(* The loader: the script downloads the Three.js module, compares its      *)
(* SHA-384 digest with the pinned one, imports it and calls initGame; any  *)
(* failure on the way ends in the catch block, which replaces the page by  *)
(* an error box.  Every await is a step of its own.                        *)

\* what the CDN may serve under THREE_CDN_URL: the release the digest was
\* pinned from, the release with an edit, something else altogether
ModuleTexts == {"three r161", "three r161 edited", "not a module"}

\* crypto.subtle.digest('SHA-384', ...) of a text, as `sha384-${base64}`
Sha384(source) ==
    <<"sha384",
      CASE source = "three r161" -> "NKwB8sp2fZuq"
        [] source = "three r161 edited" -> "q0Zk1TgWc3xD"
        [] OTHER -> "Lr7Pm5hVbE9a">>

THREE_CDN_SHA384 == <<"sha384", "NKwB8sp2fZuq">>

\* the answers of fetch: a response that is ok, one that is not (404, 503),
\* and the rejection of a request that got no response
Responses == {"ok", "not ok", "rejected"}

\* faulty variant: the text is imported whatever its digest
importModuleUnverified(response, source, expectedIntegrity) ==
    IF response # "ok" THEN "thrown"
    ELSE "imported"

\* importModuleWithIntegrity once the response and its text are there:
\* it throws or goes on to import(moduleUrl)
importModuleWithIntegrity(response, source, expectedIntegrity) ==
    IF response # "ok" THEN "thrown"
    ELSE IF Sha384(source) # expectedIntegrity THEN "thrown"
    ELSE "imported"

\* the script at its first await: nothing downloaded, the page as served,
\* no listener, no game
BrowserAtScript ==
    [BrowserAtLoad EXCEPT !.keydown = FALSE]
       @@ [pc |-> "fetch", response |-> "none", source |-> "none",
           THREE |-> "undefined", body |-> "page"]

InitLoad ==
    /\ game = NULL
    /\ env = BrowserAtScript
    /\ nLocks = 0
    /\ tail = 0
    /\ last = LoopStart

\* await fetch(url): the request is answered
FetchSettles ==
    /\ env.pc = "fetch"
    /\ \E r \in Responses :
          env' = [env EXCEPT !.response = r,
                             !.pc = IF r = "ok" THEN "text" ELSE "catch"]
    /\ last' = Seen("fetched")
    /\ UNCHANGED <<game, nLocks, tail>>

\* await response.text() and await digest(...): the comparison follows
TextSettles ==
    /\ env.pc = "text"
    /\ \E source \in ModuleTexts :
          env' = [env EXCEPT
                    !.source = source,
                    !.pc = IF importModuleWithIntegrity(env.response, source,
                                                        THREE_CDN_SHA384) = "imported"
                           THEN "import" ELSE "catch"]
    /\ last' = Seen("digest")
    /\ UNCHANGED <<game, nLocks, tail>>

\* await import(moduleUrl): the module is evaluated, or the import fails
ImportSettles ==
    /\ env.pc = "import"
    /\ \E evaluated \in BOOLEAN :
          env' = [env EXCEPT !.pc = IF evaluated THEN "loaded" ELSE "catch"]
    /\ last' = Seen("import")
    /\ UNCHANGED <<game, nLocks, tail>>

\* window.THREE = THREE_MODULE; initGame(): new TetrisGame() builds the game
\* and registers the keydown listener, or throws where it creates the renderer
InitGame ==
    /\ env.pc = "loaded"
    /\ \/ /\ \E rnd \in Draws : game' = Loaded(rnd)
          /\ env' = [env EXCEPT !.THREE = env.source, !.keydown = TRUE, !.pc = "done"]
       \/ /\ game' = game
          /\ env' = [env EXCEPT !.THREE = env.source, !.pc = "catch"]
    /\ last' = Seen("initGame")
    /\ UNCHANGED <<nLocks, tail>>

\* the catch block: the body is emptied and the error box appended
CatchError ==
    /\ env.pc = "catch"
    /\ env' = [env EXCEPT !.body = "errorBox", !.pc = "failed"]
    /\ last' = Seen("catch")
    /\ UNCHANGED <<game, nLocks, tail>>

\* the page once initGame has returned: the play button, the timer, the
\* frames and the keys
PageRuns ==
    /\ env.pc = "done"
    /\ (ClickPlay \/ PlayTimeout \/ FrameCallback \/ KeyDown)

NextLoad ==
    \/ FetchSettles
    \/ TextSettles
    \/ ImportSettles
    \/ InitGame
    \/ CatchError
    \/ PageRuns

\* a promise that is settled has its continuation run: the steps after the
\* fetch are taken; the fetch itself may stay pending for ever
SpecLoad ==
    /\ InitLoad
    /\ [][NextLoad]_vars
    /\ WF_vars(TextSettles)
    /\ WF_vars(ImportSettles)
    /\ WF_vars(CatchError)

----------------------------------------------------------------------------
(* Rotations on their own: a piece of each kind, in each orientation, is   *)
(* turned several times in a row where the game may have brought it, in a  *)
(* new game or over the mid-game stack.                                    *)

\* rotate commands in a row
MaxTurns == 4

\* the piece came down the columns it stands in: nothing is locked above it
CameDown(grid, p) ==
    /\ ~checkCollision(grid, 0, 0, p)
    /\ \A i \in 1 .. Len(p.coords) :
          \A w \in Rows : w > p.y + p.coords[i][2] => grid[p.x + p.coords[i][1]][w] = 0

\* the games the turns start from
TurnStarts ==
    {[g EXCEPT !.currentPiece = p] :
        g \in {Constructed(<<"T", "O">>), MidGame("T", "O", Session8)},
        p \in {Placed(kind, turns, x, y) :
                  kind \in KindSet, turns \in 0 .. 3, x \in Cols, y \in Rows}}

\* what is followed: the piece before the first turn, the turns made, and
\* whether each of them was accepted with kick 0
TurnsFrom(p) == [op |-> "placed", from |-> p, turns |-> 0, unkicked |-> TRUE]

InitTurns ==
    /\ StackBuilt
    /\ game \in {g \in TurnStarts : CameDown(g.grid, g.currentPiece)}
    /\ env = [bag |-> {}, deltas |-> {}]
    /\ nLocks = 0
    /\ tail = 0
    /\ last = TurnsFrom(game.currentPiece)

\* ArrowUp: rotatePiece
Turn ==
    /\ last.turns < MaxTurns
    /\ game' = handleInput(game, "ArrowUp", NoDraw)
    /\ last' = [last EXCEPT
                  !.op = "turn",
                  !.turns = @ + 1,
                  !.unkicked = /\ @
                               /\ game'.currentPiece.coords # game.currentPiece.coords
                               /\ game'.currentPiece.x = game.currentPiece.x]
    /\ UNCHANGED <<env, nLocks, tail>>

NextTurns == Turn

SpecTurns == InitTurns /\ [][NextTurns]_vars

----------------------------------------------------------------------------
(* Pieces as objects.  In the program a piece is an object the fields      *)
(* currentPiece, nextPiece and heldPiece refer to, and SHAPES is a table   *)
(* of objects too; an assignment to currentPiece.coords or currentPiece.x  *)
(* writes the object, whoever else refers to it.  Here the objects live in *)
(* game.heap and the three fields hold references.  The coords arrays are  *)
(* values: the program never writes an element of one.                     *)

\* locks a game is followed for, and rows a piece is brought down by soft drops
MaxHeapLocks == 1
MaxHeapFall == 2

\* null, the entries of SHAPES in the order of Object.keys, the piece objects
\* (three referred to and one being built; objects nothing refers to are freed)
NullRef == 0
CatalogRefs == 1 .. Len(KEYS)
PieceRefs == (Len(KEYS) + 1) .. (Len(KEYS) + 4)

RefOf(kind) == CHOOSE a \in CatalogRefs : KEYS[a] = kind

\* the heap when the script has run its declarations: SHAPES and nothing else
SHAPESLoaded ==
    [a \in CatalogRefs \cup PieceRefs |->
        IF a \in CatalogRefs
        THEN [coords |-> SHAPES[KEYS[a]].coords, color |-> SHAPES[KEYS[a]].color]
        ELSE NULL]

Referred(g) == {g.currentPiece, g.nextPiece, g.heldPiece}

\* where the next object literal is built
NewRef(g) == CHOOSE a \in PieceRefs \ Referred(g) : \A b \in PieceRefs \ Referred(g) : a <= b

\* objects nothing refers to any more are freed
Collected(g) ==
    [g EXCEPT !.heap = [a \in DOMAIN g.heap |->
        IF a \in CatalogRefs \cup Referred(g) THEN g.heap[a] ELSE NULL]]

\* { type, coords: SHAPES[kind].coords.map(c => [...c]), color: SHAPES[kind].color }
CloneOf(h, kind) ==
    [type |-> kind, coords |-> h[RefOf(kind)].coords, color |-> h[RefOf(kind)].color]

\* faulty variant: the entry of SHAPES itself is tagged with its kind and returned
getRandomPieceShared(g, randKey) ==
    [heap |-> [g.heap EXCEPT ![RefOf(randKey)] = [type |-> randKey] @@ @],
     ref |-> RefOf(randKey)]

\* getRandomPiece: a new object, its coords copied from SHAPES
getRandomPieceRef(g, randKey) ==
    [heap |-> [g.heap EXCEPT ![NewRef(g)] = CloneOf(g.heap, randKey)], ref |-> NewRef(g)]

\* currentPiece.x and .y as spawnPiece and holdPiece assign them
PlacedAtSpawn(p) == [x |-> SpawnX(p), y |-> SpawnY] @@ p

spawnPieceRef(g, rnd) ==
    LET fallback == g.nextPiece = NullRef
        made == IF fallback THEN getRandomPieceRef(g, rnd[1])
                ELSE [heap |-> g.heap, ref |-> g.nextPiece]
        g1   == [g EXCEPT !.heap = made.heap, !.currentPiece = made.ref]
        nxt  == getRandomPieceRef(g1, IF fallback THEN rnd[2] ELSE rnd[1])
        g2   == [g1 EXCEPT !.heap = nxt.heap, !.nextPiece = nxt.ref, !.canHold = TRUE]
        g3   == [g2 EXCEPT !.heap[g2.currentPiece] = PlacedAtSpawn(@)]
    IN  IF checkCollision(g3.grid, 0, 0, g3.heap[g3.currentPiece]) THEN gameOver(g3) ELSE g3

mergePieceRef(g, rnd) ==
    spawnPieceRef(checkLines([g EXCEPT !.grid = MergeCells(g.grid, g.heap[g.currentPiece])]),
                  rnd)

rotatePieceRef(g) ==
    LET p == g.heap[g.currentPiece]
    IN  [g EXCEPT !.heap[g.currentPiece] =
            TryKicks(g.grid, [p EXCEPT !.coords = Rotated(p.coords)], p.coords, 1)]

\* faulty variant: the active piece goes into the slot as it is, rotated or not
holdPieceStoresActive(g, rnd) ==
    IF ~g.canHold THEN g
    ELSE LET g0 == [g EXCEPT !.canHold = FALSE]
         IN  IF g.heldPiece # NullRef
             THEN LET g1 == [g0 EXCEPT !.heldPiece = g.currentPiece,
                                       !.currentPiece = g.heldPiece]
                      g2 == [g1 EXCEPT !.heap[g1.currentPiece] = PlacedAtSpawn(@)]
                  IN  IF checkCollision(g2.grid, 0, 0, g2.heap[g2.currentPiece])
                      THEN gameOver(g2) ELSE g2
             ELSE spawnPieceRef([g0 EXCEPT !.heldPiece = g.currentPiece], rnd)

holdPieceRef(g, rnd) ==
    IF ~g.canHold THEN g
    ELSE LET currentType == g.heap[g.currentPiece].type
             g0 == [g EXCEPT !.canHold = FALSE]
         IN  IF g.heldPiece # NullRef
             THEN LET g1 == [g0 EXCEPT !.heap[NewRef(g)] = CloneOf(g.heap, currentType),
                                       !.heldPiece = NewRef(g),
                                       !.currentPiece = g.heldPiece]
                      g2 == [g1 EXCEPT !.heap[g1.currentPiece] = PlacedAtSpawn(@)]
                  IN  IF checkCollision(g2.grid, 0, 0, g2.heap[g2.currentPiece])
                      THEN gameOver(g2) ELSE g2
             ELSE spawnPieceRef([g0 EXCEPT !.heap[NewRef(g)] = CloneOf(g.heap, currentType),
                                           !.heldPiece = NewRef(g)], rnd)

RECURSIVE HardDropLoopRef(_)
HardDropLoopRef(g) ==
    IF ~checkCollision(g.grid, 0, -1, g.heap[g.currentPiece])
    THEN HardDropLoopRef([g EXCEPT !.heap[g.currentPiece].y = @ - 1,
                                   !.score = @ + hardDropScore])
    ELSE g

\* handleInput on a game in play, for the keys that lower, rotate, lock and hold
handleInputRef(g, key, rnd) ==
    IF g.isGameOver \/ g.isPaused THEN g
    ELSE CASE key = "ArrowDown" ->
                IF ~checkCollision(g.grid, 0, -1, g.heap[g.currentPiece])
                THEN updateHud([g EXCEPT !.heap[g.currentPiece].y = @ - 1,
                                         !.score = @ + softDropScore])
                ELSE g
           [] key = "ArrowUp" -> rotatePieceRef(g)
           [] key = " " ->
                [mergePieceRef(updateHud(HardDropLoopRef(g)), rnd) EXCEPT !.dropCounter = 0]
           [] key \in {"c", "C"} -> holdPieceRef(g, rnd)
           [] OTHER -> g

\* the fields after the constructor, as references
ConstructedRef(rnd) ==
    LET fields == [FreshFields EXCEPT !.currentPiece = NullRef, !.nextPiece = NullRef,
                                      !.heldPiece = NullRef]
                      @@ [heap |-> SHAPESLoaded]
        first  == getRandomPieceRef(fields, rnd[1])
    IN  spawnPieceRef([fields EXCEPT !.heap = first.heap, !.nextPiece = first.ref], Tail(rnd))

HeapBag == {"T", "L"}

InitHeap ==
    /\ env = [bag |-> HeapBag, deltas |-> {}]
    /\ \E rnd \in Draws : game = Collected(ConstructedRef(rnd))
    /\ nLocks = 0
    /\ tail = 0
    /\ last = [op |-> "load"]

\* ArrowDown
LowerRef ==
    /\ ~game.isGameOver
    /\ game.heap[game.currentPiece].y > SpawnY - MaxHeapFall
    /\ game' = Collected(handleInputRef(game, "ArrowDown", NoDraw))
    /\ last' = [op |-> "lower"]
    /\ UNCHANGED <<env, nLocks, tail>>

\* ArrowUp
TurnRef ==
    /\ ~game.isGameOver
    /\ game' = Collected(handleInputRef(game, "ArrowUp", NoDraw))
    /\ last' = [op |-> "turn"]
    /\ UNCHANGED <<env, nLocks, tail>>

\* c
HoldRef ==
    /\ ~game.isGameOver
    /\ \E rnd \in Draws : game' = Collected(handleInputRef(game, "c", rnd))
    /\ last' = IF game.canHold
               THEN [op |-> "hold",
                     swapped |-> game.heldPiece # NullRef,
                     turned |-> game.heap[game.currentPiece].coords
                                   # SHAPES[game.heap[game.currentPiece].type].coords]
               ELSE [op |-> "other"]
    /\ UNCHANGED <<env, nLocks, tail>>

\* the space bar: the piece is locked and the next one spawns
DropRef ==
    /\ ~game.isGameOver
    /\ nLocks < MaxHeapLocks
    /\ \E rnd \in Draws : game' = Collected(handleInputRef(game, " ", rnd))
    /\ nLocks' = nLocks + 1
    /\ last' = [op |-> "lock"]
    /\ UNCHANGED <<env, tail>>

NextHeap ==
    \/ LowerRef
    \/ TurnRef
    \/ HoldRef
    \/ DropRef

SpecHeap == InitHeap /\ [][NextHeap]_vars

----------------------------------------------------------------------------
(* A piece followed to its lock: the game stays in play (no pause key) and *)
(* frames shorter than the drop interval keep coming, while the player     *)
(* moves, turns, lowers and holds the piece as they like.                  *)

LiveDeltas == {400, 700}

InitLive ==
    /\ StackBuilt
    /\ env = [bag |-> {"T"}, deltas |-> LiveDeltas]
    /\ \E cur \in {"T", "I"} : game = MidGame(cur, "O", Session8)
    /\ nLocks = 0
    /\ tail = 0
    /\ last = NoObservation

NextLive ==
    \/ Tick
    \/ MoveLeft
    \/ MoveRight
    \/ SoftDrop
    \/ Rotate
    \/ Hold

\* a frame of a game in play is possible, and it changes the state
FrameEnabled == Playing(game) /\ CanAct

\* the browser keeps calling animate: weak fairness of the frame of a game in
\* play, WF_vars(Playing(game) /\ Tick), with its ENABLED written as the state
\* predicate FrameEnabled
FairFrames == []<>(~FrameEnabled) \/ []<><<Playing(game) /\ Tick>>_vars

SpecLive == InitLive /\ [][NextLive]_vars /\ FairFrames

----------------------------------------------------------------------------
(* A game nobody plays: a new game, frames and no key.                     *)

IdleBag == {"O", "T"}
IdleDeltas == {700, 1001}

InitIdle ==
    /\ env = [bag |-> IdleBag, deltas |-> IdleDeltas]
    /\ \E rnd \in Draws : game = Constructed(rnd)
    /\ nLocks = 0
    /\ tail = 0
    /\ last = NoObservation

\* a frame: animate(lastTime + d), for as long as the page is open
IdleFrame ==
    /\ \E d \in env.deltas, rnd \in Draws :
          /\ game' = animate(game, d, rnd)
          /\ nLocks' = IF LocksOnTick(game, d) THEN nLocks + 1 ELSE nLocks
          /\ last' = IF LocksOnTick(game, d)
                     THEN LockSeen(game.grid, game.currentPiece) ELSE NoObservation
    /\ UNCHANGED <<env, tail>>

NextIdle == IdleFrame

\* the browser keeps calling animate: weak fairness of the frame,
\* WF_vars(IdleFrame), whose ENABLED on a game that is not over is TRUE
FairIdleFrames == []<>game.isGameOver \/ []<><<IdleFrame>>_vars

SpecIdle == InitIdle /\ [][NextIdle]_vars /\ FairIdleFrames

\* the full rows of a grid, and its i-th row (from 0, bottom up) that is not full
FullRowsOf(grid) == {y \in 0 .. 19 : \A x \in 0 .. 9 : grid[x][y] # 0}

NthKept(grid, i) ==
    LET kept == (0 .. 19) \ FullRowsOf(grid)
    IN  CHOOSE y \in kept : Cardinality({z \in kept : z < y}) = i

\* C4 -- Line-clear compaction law: with k >= 1 full rows, row i < 20 - k of
\* the new grid is the old grid's i-th non-full row, cell for cell, and the
\* top k rows are empty; with no full row the grid, score, lines and level
\* are unchanged.
CompactionLaw ==
    last.op = "checkLines" =>
        LET old == last.before.grid
            k   == Cardinality(FullRowsOf(old))
        IN  IF k >= 1
            THEN /\ \A i \in 0 .. (19 - k) : \A x \in 0 .. 9 :
                        game.grid[x][i] = old[x][NthKept(old, i)]
                 /\ \A i \in (20 - k) .. 19 : \A x \in 0 .. 9 : game.grid[x][i] = 0
            ELSE /\ game.grid = old
                 /\ game.score = last.before.score
                 /\ game.linesCleared = last.before.linesCleared
                 /\ game.level = last.before.level

\* rows 0 and 2 were full, rows 1 and 3 were not: they are now rows 0 and 1
CompactionWitness ==
    /\ last.op = "checkLines"
    /\ FullRowsOf(last.before.grid) = {0, 2}
    /\ last.before.grid[0][1] = 0
    /\ last.before.grid[9][3] = 0
    /\ game.grid[0][0] = 0
    /\ game.grid[9][1] = 0
    /\ game.grid[5][1] # 0

\* C5 -- Scoring: a clear of exactly n rows (n in 1..4) at level L adds
\* 100L / 300L / 500L / 800L to the score, L being the level before the
\* clear, and adds n to the lines cleared.
ScoringLaw ==
    last.op = "checkLines" =>
        LET n == Cardinality(FullRowsOf(last.before.grid))
            L == last.before.level
        IN  n \in 1 .. 4 =>
              /\ game.score = last.before.score + <<100, 300, 500, 800>>[n] * L
              /\ game.linesCleared = last.before.linesCleared + n

\* four rows cleared at level 10 took the game to level 11 and paid 800 * 10
ScoringWitness ==
    /\ last.op = "checkLines"
    /\ Cardinality(FullRowsOf(last.before.grid)) = 4
    /\ last.before.level = 10
    /\ game.level = 11
    /\ game.score = last.before.score + 8000

----------------------------------------------------------------------------
(* Footprint of the active piece                                           *)

\* the absolute cells of piece p
Footprint(p) == {<<p.x + p.coords[i][1], p.y + p.coords[i][2]>> : i \in 1 .. Len(p.coords)}

\* C1 -- Bounds invariant: in every state reached by ticks and commands,
\* either the game is over or every absolute cell of the active piece has its
\* column in [0, 10) and its row in [0, 20).
BoundsInvariant ==
    \/ game.isGameOver
    \/ \A c \in Footprint(game.currentPiece) :
          c[1] >= 0 /\ c[1] < 10 /\ c[2] >= 0 /\ c[2] < 20

\* a rotation has just been kicked off the right wall and left the piece
\* touching it
BoundsWitness ==
    /\ Playing(game)
    /\ last.op = "rotate"
    /\ last.kick < 0
    /\ \E c \in Footprint(game.currentPiece) : c[1] = GRID_WIDTH - 1

\* C2 -- Non-overlap invariant: while the game is Playing or Paused no
\* absolute cell of the active piece is an occupied cell of the grid.
NoOverlap ==
    ~game.isGameOver =>
        \A c \in Footprint(game.currentPiece) :
            (c[1] \in Cols /\ c[2] \in Rows) => game.grid[c[1]][c[2]] = 0

\* paused after a hold, the active piece lying on the stack
NoOverlapWitness ==
    /\ game.isPaused
    /\ ~game.isGameOver
    /\ game.heldPiece # NULL
    /\ checkCollision(game.grid, 0, -1, game.currentPiece)
    /\ \A c \in Footprint(game.currentPiece) : c[2] > 0

\* C3 -- Merge never overwrites: at every lock (by gravity or by hard drop)
\* the four cells of the piece are inside the grid and empty, and the writes
\* of mergePiece change exactly four cells.
MergeFillsEmptyCells ==
    last.op = "lock" => last.onEmpty = 4 /\ last.written = 4

\* a second piece has been locked, with rows cleared since the start
MergeWitness ==
    /\ last.op = "lock"
    /\ last.onEmpty = 4
    /\ nLocks = 2
    /\ game.linesCleared % 4 # 0

----------------------------------------------------------------------------
(* Level and drop interval                                                 *)

\* C6 -- Level/interval formula: in every reachable state
\* level = floor(linesCleared / 10) + 1 and
\* dropInterval = max(100, 1000 - (level - 1) * 75).
LevelIntervalFormula ==
    /\ game.level = (game.linesCleared \div 10) + 1
    /\ game.dropInterval =
          IF 1000 - (game.level - 1) * 75 > 100
          THEN 1000 - (game.level - 1) * 75 ELSE 100

\* a clear of four rows has taken the game from level 1 to level 2
LevelUpWitness ==
    /\ game.linesCleared = 12
    /\ game.level = 2
    /\ game.dropInterval = 925

\* C7 -- Interval monotonicity: over every step that is not a reset the drop
\* interval does not increase and stays at or above 100, the level does not
\* decrease, and it rises by at most 1 (a lock included).
IntervalMonotone ==
    [][~game.isGameOver =>
          /\ game'.dropInterval <= game.dropInterval
          /\ game'.dropInterval >= 100
          /\ game'.level >= game.level
          /\ game'.level <= game.level + 1]_vars

\* a lock has raised the level past the point where the formula goes under 100
IntervalFloorWitness ==
    /\ last.op = "lock"
    /\ game.level = 14
    /\ game.dropInterval = 100

----------------------------------------------------------------------------
(* Rotation                                                                *)

KickOrder == <<0, -1, 1, -2, 2>>

\* the step is a rotate command given while playing
RotateStep == last'.op \in {"rotate", "rotate-refused"}

\* the active piece with every offset (x, y) replaced by (-y, x)
Turned(p) ==
    [p EXCEPT !.coords = [i \in 1 .. Len(p.coords) |-> << -p.coords[i][2], p.coords[i][1] >>]]

\* the index in KickOrder of the first kick at which piece r does not collide,
\* 0 when it collides at all five
FirstLegal(grid, r) ==
    LET ok == {k \in 1 .. Len(KickOrder) : ~checkCollision(grid, KickOrder[k], 0, r)}
    IN  IF ok = {} THEN 0 ELSE CHOOSE k \in ok : \A j \in ok : k <= j

\* C8 -- Rotation kick order: a rotate replaces each offset (x, y) by (-y, x)
\* and shifts the anchor column by the first k of [0, -1, +1, -2, +2] at which
\* the rotated shape does not collide (so -1 wins over +1 when 0 collides).
RotationKickOrder ==
    [][RotateStep =>
          LET r == Turned(game.currentPiece)
              k == FirstLegal(game.grid, r)
          IN  k # 0 => game'.currentPiece = [r EXCEPT !.x = r.x + KickOrder[k]]]_vars

\* a rotation collided unkicked, was legal at both -1 and +1, and took -1
KickLeftWitness ==
    /\ last.op = "rotate"
    /\ last.kick = -1
    /\ 0 \notin last.legal
    /\ {-1, 1} \subseteq last.legal

\* C9 -- Rotation is all-or-nothing: when the rotated shape collides at all
\* five kicks the piece is as before (offsets and anchor); in every case the
\* anchor row is unchanged and the anchor column changes by at most 2.
RotationAllOrNothing ==
    [][RotateStep =>
          /\ FirstLegal(game.grid, Turned(game.currentPiece)) = 0
                => game'.currentPiece = game.currentPiece
          /\ game'.currentPiece.y = game.currentPiece.y
          /\ game'.currentPiece.x - game.currentPiece.x \in -2 .. 2]_vars

\* a rotation was refused below the spawn row, as for an upright I in the well
RotationRefusedWitness ==
    /\ last.op = "rotate-refused"
    /\ last.legal = {}
    /\ game.currentPiece.y < 14

----------------------------------------------------------------------------
(* Hold                                                                    *)

\* C10 -- One hold per active piece: right after a hold command that had an
\* effect canHold is false.
HoldClearsFlag == last.op = "hold" => ~game.canHold

\* two hold commands have changed state before any lock: the piece announced
\* at the start has come into play by the first and is in the slot by the second
SecondHoldWitness ==
    /\ last.op = "hold"
    /\ nLocks = 0
    /\ game.heldPiece.type = "O"
    /\ ~game.canHold

\* the step is a hold command that had an effect (given in play, canHold true)
HoldStep == last'.op = "hold"

\* C11 -- Hold swap with an occupied slot: a hold given with canHold true and
\* a piece held leaves the previously active kind in the slot and the
\* previously held kind in play at the spawn anchor (x = 4, or 3 for I;
\* y = 18); grid, next piece, score, level and lines are unchanged.
HoldSwap ==
    [][HoldStep /\ game.heldPiece # NULL =>
          /\ game'.heldPiece.type = game.currentPiece.type
          /\ game'.currentPiece.type = game.heldPiece.type
          /\ game'.currentPiece.x = (IF game.heldPiece.type = "I" THEN 3 ELSE 4)
          /\ game'.currentPiece.y = 18
          /\ game'.grid = game.grid
          /\ game'.nextPiece = game.nextPiece
          /\ game'.score = game.score
          /\ game'.level = game.level
          /\ game'.linesCleared = game.linesCleared]_vars

\* after a lock, a hold has brought the held I back into play for the T that
\* had spawned
HoldSwapWitness ==
    /\ last.op = "hold"
    /\ nLocks = 1
    /\ game.heldPiece.type = "T"
    /\ game.currentPiece.type = "I"
    /\ game.currentPiece.x = 3
    /\ game.currentPiece.y = 18

\* C12 -- Hold with an empty slot: a hold given with canHold true and nothing
\* held leaves the previously active kind in the slot, brings the previous
\* next piece into play at the spawn anchor, draws a new next piece and
\* leaves the grid unchanged (the discarded piece writes no cell).
HoldEmptySlot ==
    [][HoldStep /\ game.heldPiece = NULL =>
          /\ game'.heldPiece.type = game.currentPiece.type
          /\ game'.currentPiece.type = game.nextPiece.type
          /\ game'.currentPiece.coords = game.nextPiece.coords
          /\ game'.currentPiece.x = (IF game.nextPiece.type = "I" THEN 3 ELSE 4)
          /\ game'.currentPiece.y = 18
          /\ \E k \in env.bag :
                /\ game'.nextPiece.type = k
                /\ game'.nextPiece.coords = SHAPES[k].coords
          /\ game'.grid = game.grid]_vars

\* the first hold of a game: the I is in the slot, the announced O is in play
\* at the spawn anchor and a T is announced
HoldEmptyWitness ==
    /\ last.op = "hold"
    /\ nLocks = 0
    /\ game.heldPiece.type = "I"
    /\ game.currentPiece.type = "O"
    /\ game.currentPiece.y = 18
    /\ game.nextPiece.type = "T"

\* C13 -- Hold spawn collision: when the piece a hold brings into play (from
\* the slot or from the next queue) overlaps a locked cell at the spawn
\* anchor, the game is over in the same step and the grid is the grid before
\* the hold.
HoldSpawnCollision ==
    [][(/\ HoldStep
        /\ \E c \in Footprint(game'.currentPiece) : game.grid[c[1]][c[2]] # 0)
          => /\ game'.isGameOver
             /\ game'.grid = game.grid]_vars

\* the held I was swapped in onto the upright T that reaches row 18
HoldCollisionWitness ==
    /\ last.op = "hold"
    /\ game.isGameOver
    /\ ~game.canHold
    /\ game.heldPiece.type = "O"
    /\ game.currentPiece = AtSpawn(getRandomPiece("I"))
    /\ game.grid[2][18] # 0

----------------------------------------------------------------------------
(* Run states                                                              *)

\* the keys of the commands other than pause
CommandKeys == {"ArrowLeft", "ArrowRight", "ArrowDown", "ArrowUp", " ", "c", "C"}

\* C14 -- Pause freezes the simulation: in a paused game a frame of any
\* length and every command other than pause leave the whole state as it is
\* (grid, pieces, slot, score, level, lines, drop counter); pause takes a game
\* in play to Paused and a paused game back to play, nothing else changing.
PauseFreezes ==
    /\ game.isPaused =>
          /\ \A d \in env.deltas, rnd \in Draws : animate(game, d, rnd) = game
          /\ \A key \in CommandKeys, rnd \in Draws : handleInput(game, key, rnd) = game
          /\ \A key \in {"p", "P"} :
                handleInput(game, key, NoDraw) = [game EXCEPT !.isPaused = FALSE]
    /\ Playing(game) =>
          \A key \in {"p", "P"} :
              handleInput(game, key, NoDraw) = [game EXCEPT !.isPaused = TRUE]

\* paused with the drop counter part-way and the active piece in mid-air below
\* the spawn row, free to fall and to be held
PausedWitness ==
    /\ game.isPaused
    /\ ~game.isGameOver
    /\ game.dropCounter = 600
    /\ game.currentPiece.y < 18
    /\ game.canHold
    /\ ~checkCollision(game.grid, 0, -1, game.currentPiece)

\* C15 -- GameOver is terminal until reset: from a game that is over, every
\* frame and every command other than reset leaves the game over and the
\* grid, active piece, hold slot, next piece, score, level and lines unchanged.
GameOverTerminal ==
    [][game.isGameOver /\ last'.op # "reset" =>
          /\ game'.isGameOver
          /\ game'.grid = game.grid
          /\ game'.currentPiece = game.currentPiece
          /\ game'.heldPiece = game.heldPiece
          /\ game'.nextPiece = game.nextPiece
          /\ game'.score = game.score
          /\ game'.level = game.level
          /\ game'.linesCleared = game.linesCleared]_vars

\* a game ended by a lock, and a frame or a key has come since: the piece that
\* could not spawn still overlaps the stack
GameOverWitness ==
    /\ game.isGameOver
    /\ nLocks > 0
    /\ last = NoObservation
    /\ checkCollision(game.grid, 0, 0, game.currentPiece)

\* C16 -- Reset reinitializes: right after a reset given in GameOver the game
\* is in play with an all-empty grid, score 0, level 1, lines 0, drop interval
\* 1000, the hold slot empty, canHold true, a freshly drawn next piece and an
\* active piece at the spawn anchor that does not collide.
ResetReinitializes ==
    last.op = "reset" =>
        /\ ~game.isGameOver /\ ~game.isPaused
        /\ \A x \in 0 .. 9 : \A y \in 0 .. 19 : game.grid[x][y] = 0
        /\ game.score = 0
        /\ game.level = 1
        /\ game.linesCleared = 0
        /\ game.dropInterval = 1000
        /\ game.heldPiece = NULL
        /\ game.canHold
        /\ \E k \in env.bag :
              /\ game.nextPiece.type = k
              /\ game.nextPiece.coords = SHAPES[k].coords
        /\ game.currentPiece.x = (IF game.currentPiece.type = "I" THEN 3 ELSE 4)
        /\ game.currentPiece.y = 18
        /\ \A c \in Footprint(game.currentPiece) :
              c[1] \in 0 .. 9 /\ c[2] \in 0 .. 19 /\ game.grid[c[1]][c[2]] = 0

\* a game that had locked two pieces has been reset
ResetWitness ==
    /\ last.op = "reset"
    /\ nLocks = 2
    /\ Playing(game)
    /\ game.currentPiece.type = "T"

----------------------------------------------------------------------------
(* Gravity and drops                                                       *)

\* the step is a frame of length d
FrameOf(d) == \E rnd \in Draws : game' = animate(game, d, rnd)

\* every cell of the active piece has a free cell of the grid k rows below it
FreeBelow(k) ==
    \A c \in Footprint(game.currentPiece) :
        c[2] - k >= 0 /\ game.grid[c[1]][c[2] - k] = 0

\* the step locks the active piece d rows below where it is, for `bonus`
\* points: its cells are written, the full rows are cleared and paid, and the
\* next piece comes into play at the spawn anchor, a new one being drawn
LocksBelow(d, bonus) ==
    LET p      == game.currentPiece
        cells  == {<<c[1], c[2] - d>> : c \in Footprint(p)}
        merged == [x \in Cols |-> [y \in Rows |->
                      IF <<x, y>> \in cells THEN p.color ELSE game.grid[x][y]]]
        after  == checkLines([game EXCEPT !.grid = merged, !.score = @ + bonus])
        spawn  == [game.nextPiece EXCEPT !.x = IF game.nextPiece.type = "I" THEN 3 ELSE 4,
                                         !.y = 18]
    IN  /\ game'.grid = after.grid
        /\ game'.score = after.score
        /\ game'.linesCleared = after.linesCleared
        /\ game'.level = after.level
        /\ game'.dropInterval = after.dropInterval
        /\ game'.currentPiece.type = game.nextPiece.type
        /\ game'.currentPiece.coords = game.nextPiece.coords
        /\ game'.currentPiece.x = (IF game.nextPiece.type = "I" THEN 3 ELSE 4)
        /\ game'.currentPiece.y = 18
        /\ game'.nextPiece.type \in env.bag
        /\ game'.heldPiece = game.heldPiece
        /\ game'.isGameOver =
              (\E c \in Footprint(game'.currentPiece) : after.grid[c[1]][c[2]] # 0)
        /\ game'.dropCounter = 0

\* C17 -- Gravity tick: in play, a frame of length d adds d to the drop
\* counter; if and only if the sum is strictly greater than dropInterval one
\* gravity action happens (the piece goes down exactly one row if it can,
\* otherwise it is locked, lines are cleared and the next piece spawns) and
\* the counter becomes 0; otherwise nothing else changes.  However large d is,
\* one frame applies one gravity action.
GravityTick ==
    [][\A d \in env.deltas :
          (Playing(game) /\ FrameOf(d)) =>
              IF game.dropCounter + d > game.dropInterval
              THEN IF FreeBelow(1)
                   THEN game' = [game EXCEPT !.currentPiece.y = @ - 1, !.dropCounter = 0]
                   ELSE LocksBelow(0, 0)
              ELSE game' = [game EXCEPT !.dropCounter = game.dropCounter + d]]_vars

\* two frames have brought the counter to exactly the drop interval and the
\* piece, still in the spawn row, has not moved
CounterAtIntervalWitness ==
    /\ Playing(game)
    /\ game.dropCounter = game.dropInterval
    /\ game.currentPiece.y = 18
    /\ game.score = 0

\* the step is a hard drop given in play (a hard drop locks)
HardDropStep == Playing(game) /\ last'.op = "lock" /\ HardDrop

\* the largest d >= 0 such that the active piece is free at every offset 1..d
DropDistance ==
    CHOOSE d \in 0 .. 19 : (\A k \in 1 .. d : FreeBelow(k)) /\ ~FreeBelow(d + 1)

\* C18 -- Hard drop: in play, a hard drop moves the active piece down by the
\* largest d >= 0 such that every offset 1..d is free of collision, pays
\* 2 * d, and in the same step locks the piece there (merge, line clear with
\* its own award, spawn of the next piece with the collision test) and sets
\* the drop counter to 0.  On an empty grid an O at spawn descends 18 rows,
\* is paid 36 and occupies cells (4,0), (5,0), (4,1), (5,1).
HardDropLaw ==
    [][HardDropStep =>
          LET d == DropDistance
          IN  /\ LocksBelow(d, 2 * d)
              /\ (/\ game.currentPiece.type = "O"
                  /\ game.currentPiece.x = 4 /\ game.currentPiece.y = 18
                  /\ game.currentPiece.coords = SHAPES.O.coords
                  /\ \A x \in 0 .. 9 : \A y \in 0 .. 19 : game.grid[x][y] = 0)
                    => /\ d = 18
                       /\ game'.score = game.score + 36
                       /\ \A x \in 0 .. 9 : \A y \in 0 .. 19 :
                             (game'.grid[x][y] # 0) <=>
                                 (<<x, y>> \in {<<4, 0>>, <<5, 0>>, <<4, 1>>, <<5, 1>>})]_vars

\* the first piece of a new game, an O, was dropped from the spawn row
HardDropWitness ==
    /\ last.op = "lock"
    /\ nLocks = 1
    /\ game.score = 36
    /\ game.dropCounter = 0
    /\ game.linesCleared = 0
    /\ game.grid[4][0] = SHAPES.O.color
    /\ game.grid[5][1] = SHAPES.O.color
    /\ Cardinality(Occupied(game.grid)) = 4

\* the step is a soft drop given in play
SoftDropStep == Playing(game) /\ SoftDrop

\* C19 -- Soft drop: in play, a soft drop moves the active piece down exactly
\* one row and adds exactly 1 to the score when the move is legal; when the
\* piece cannot go down nothing changes (no score, no lock, no spawn).  Grid
\* and drop counter are unchanged in both cases.
SoftDropLaw ==
    [][SoftDropStep =>
          /\ IF FreeBelow(1)
             THEN /\ game'.currentPiece = [game.currentPiece EXCEPT !.y = @ - 1]
                  /\ game'.score = game.score + 1
             ELSE /\ game'.currentPiece = game.currentPiece
                  /\ game'.score = game.score
                  /\ game'.nextPiece = game.nextPiece
                  /\ nLocks' = nLocks
          /\ game'.grid = game.grid
          /\ game'.dropCounter = game.dropCounter
          /\ game' = [game EXCEPT !.currentPiece = game'.currentPiece,
                                  !.score = game'.score,
                                  !.hud = game'.hud]]_vars

\* three soft drops have been paid before any lock and the piece has come to
\* rest on the stack, where one more would change nothing
SoftDropWitness ==
    /\ Playing(game)
    /\ nLocks = 0
    /\ game.score = Session8.score + 3
    /\ game.currentPiece.y = 15
    /\ ~FreeBelow(1)

\* the step is one of the six piece commands
PieceCommand == MoveLeft \/ MoveRight \/ SoftDrop \/ Rotate \/ HardDrop \/ Hold

\* C20 -- Run-state gating: a moveLeft, moveRight, softDrop, rotate, hardDrop
\* or hold command given while the game is Paused or GameOver leaves the
\* entire game state unchanged.
CommandsGated ==
    [][(~Playing(game) /\ PieceCommand) => game' = game]_vars

\* paused after the first lock, the new piece free to go left, right and down,
\* to turn and to be held
GatedWitness ==
    /\ game.isPaused
    /\ ~game.isGameOver
    /\ nLocks = 1
    /\ game.canHold
    /\ \A k \in {-1, 1} : ~checkCollision(game.grid, k, 0, game.currentPiece)
    /\ FreeBelow(1)
    /\ LegalKicks(game) # {}

----------------------------------------------------------------------------
(* Moves                                                                   *)

\* piece p shifted by (dx, dy) has a cell outside the grid or on a locked cell
Collides(grid, p, dx, dy) ==
    \E i \in 1 .. 4 :
        LET cx == p.x + p.coords[i][1] + dx
            cy == p.y + p.coords[i][2] + dy
        IN  cx \notin 0 .. 9 \/ cy \notin 0 .. 19 \/ grid[cx][cy] # 0

\* what a move by dx columns must do to a game in play
MoveLaw(dx) ==
    IF Collides(game.grid, game.currentPiece, dx, 0)
    THEN game' = game
    ELSE game' = [game EXCEPT !.currentPiece.x = @ + dx]

\* C21 -- Rejected moves are idempotent no-ops: in play, a moveLeft or
\* moveRight whose target collides (wall or locked cell) leaves the entire
\* state unchanged, so repeating it keeps the anchor column where it was; an
\* accepted one changes the anchor column by exactly one and nothing else.
MovesLaw ==
    [][/\ (Playing(game) /\ MoveLeft) => MoveLaw(-1)
       /\ (Playing(game) /\ MoveRight) => MoveLaw(1)]_vars

\* the active piece has been moved left until it touches the left wall, below
\* the spawn row: one more moveLeft is rejected
AgainstWallWitness ==
    /\ Playing(game)
    /\ game.currentPiece.y < 18
    /\ \E c \in Footprint(game.currentPiece) : c[1] = 0
    /\ game.currentPiece.x # SpawnX(game.currentPiece)

----------------------------------------------------------------------------
(* Spawn                                                                   *)

\* C22 -- GameOver is entered only by a spawn collision: a game in play
\* becomes over only in a step that places a piece at the spawn anchor (the
\* spawn after a lock or after an empty-slot hold, the respawn of a hold swap)
\* and only when that piece collides there; moves, rotations, soft drops,
\* pause and a gravity descent never end the game.
GameOverOnlyBySpawn ==
    [][(~game.isGameOver /\ game'.isGameOver) =>
          /\ last'.op \in {"lock", "hold"}
          /\ ~game.isPaused
          /\ game'.currentPiece.x = (IF game'.currentPiece.type = "I" THEN 3 ELSE 4)
          /\ game'.currentPiece.y = 18
          /\ game'.currentPiece.coords = SHAPES[game'.currentPiece.type].coords
          /\ Collides(game'.grid, game'.currentPiece, 0, 0)]_vars

\* the game ended at the first lock: the O that spawned lies on a locked cell
\* of row 18
SpawnCollisionWitness ==
    /\ game.isGameOver
    /\ last.op = "lock"
    /\ nLocks = 1
    /\ game.currentPiece = AtSpawn(getRandomPiece("O"))
    /\ \E c \in Footprint(game.currentPiece) : c[2] = 18 /\ game.grid[c[1]][c[2]] # 0

\* the step spawns the piece that was announced: after a lock, or by a hold
\* given with the slot empty
SpawnsNext ==
    \/ last'.op = "lock"
    \/ last'.op = "hold" /\ game.heldPiece = NULL

----------------------------------------------------------------------------
(* Collision test                                                          *)

\* the cells of the grid
Board == (0 .. 9) \X (0 .. 19)

\* the cells of piece p shifted by (dx, dy)
Shifted(p, dx, dy) == {<<c[1] + dx, c[2] + dy>> : c \in Footprint(p)}

\* offsets the test is compared at: they take a piece past every edge
Offsets == -2 .. 2

\* C24 -- checkCollision reference: for the grid and the active piece of
\* every reachable state, upright or turned, and every offset (dx, dy),
\* checkCollision is true exactly when one of the piece's 4 cells shifted by
\* (dx, dy) has its column outside [0, 10), its row outside [0, 20), or lies
\* on an occupied cell of the grid.
CollisionReference ==
    \A p \in {game.currentPiece, Turned(game.currentPiece)} :
        \A dx \in Offsets, dy \in Offsets :
            checkCollision(game.grid, dx, dy, p) <=>
                LET cells == Shifted(p, dx, dy)
                IN  \/ \E c \in cells : c \notin Board
                    \/ \E c \in cells \cap Board : game.grid[c[1]][c[2]] # 0

\* an upright I stands in the well: it is free where it is and one row lower,
\* and blocked by locked cells on either side
CollisionWitness ==
    /\ Playing(game)
    /\ game.currentPiece.type = "I"
    /\ game.currentPiece.x = 4
    /\ game.currentPiece.y \in 2 .. 12
    /\ ~checkCollision(game.grid, 0, 0, game.currentPiece)
    /\ ~checkCollision(game.grid, 0, -1, game.currentPiece)
    /\ checkCollision(game.grid, -1, 0, game.currentPiece)
    /\ checkCollision(game.grid, 1, 0, game.currentPiece)
    /\ Shifted(game.currentPiece, 0, 2) \subseteq Board

----------------------------------------------------------------------------
(* HUD                                                                     *)

\* C25 -- HUD consistency: after every frame and every command, the score,
\* level and lines last written to the HUD by updateHud are the current
\* score, level and linesCleared.
HudConsistent ==
    game.hud.written =>
        /\ game.hud.score = game.score
        /\ game.hud.level = game.level
        /\ game.hud.lines = game.linesCleared

\* soft drops and a hard drop have been paid and the lock has cleared four
\* rows and raised the level: the HUD shows all three new values
HudWitness ==
    /\ last.op = "lock"
    /\ game.linesCleared = 12
    /\ game.level = 2
    /\ game.score > Session8.score + 800 + 2
    /\ game.score % 2 = 1
    /\ game.hud = [written |-> TRUE, score |-> game.score, level |-> 2, lines |-> 12]

----------------------------------------------------------------------------
(* Teardown                                                                *)

\* C26 -- destroy stops the loop: once destroy() has returned, every start
\* having been made before it, no frame callback runs and no keydown is
\* handled.
DestroyStopsLoop ==
    (last.destroyed > 0 /\ ~last.lateStart) => last.op \notin {"frame", "keydown"}

\* the play button was clicked twice and both timers fired before destroy();
\* a frame callback has run after it and has asked for the next frame
StrayFrameWitness ==
    /\ last.op = "frame"
    /\ last.destroyed > 0
    /\ ~last.lateStart
    /\ env.clicks = 2
    /\ env.timers = 0
    /\ ~env.keydown
    /\ game.rafId \in env.frames

----------------------------------------------------------------------------
(* Rows cleared by one lock                                                *)

\* C27 -- At most 4 rows per clear: the checkLines call of every lock finds
\* the full rows of the grid with the piece merged, between 0 and 4 of them,
\* so the index into POINTS is defined and a clear of k rows is paid
\* POINTS[k] times the level.
ClearsAtMostFour ==
    [][last'.op = "lock" =>
          LET d     == DropDistance
              cells == {<<c[1], c[2] - d>> : c \in Footprint(game.currentPiece)}
              full  == {y \in 0 .. 19 :
                          \A x \in 0 .. 9 : <<x, y>> \in cells \/ game.grid[x][y] # 0}
              found == game'.linesCleared - game.linesCleared
          IN  /\ found = Cardinality(full)
              /\ found \in 0 .. 4
              /\ found + 1 \in DOMAIN POINTS
              /\ found > 0 =>
                    game'.score = game.score + 2 * d + POINTS[found + 1] * game.level]_vars

\* an upright I has locked in the open column and four rows went at once,
\* paid 800 at level 1
FourRowsWitness ==
    /\ last.op = "lock"
    /\ nLocks = 1
    /\ game.linesCleared = Session8.linesCleared + 4
    /\ \E d \in 1 .. 19 : game.score = Session8.score + 2 * d + 800
    /\ Cardinality(Occupied(game.grid)) = Cardinality(Occupied(StackGrid)) + 4 - 40

----------------------------------------------------------------------------
(* Session counters                                                        *)

\* C28 -- Session counters are monotonic: score and linesCleared are never
\* negative and level is at least 1; no step other than a reset lowers the
\* score, the lines or the level.
CountersMonotonic ==
    /\ [](game.score >= 0 /\ game.linesCleared >= 0 /\ game.level >= 1)
    /\ [][last'.op # "reset" =>
             /\ game'.score >= game.score
             /\ game'.linesCleared >= game.linesCleared
             /\ game'.level >= game.level]_vars

\* a session of 128 lines has gone on: a lock has cleared rows and paid
CountersWitness ==
    /\ last.op = "lock"
    /\ game.linesCleared > Session128.linesCleared
    /\ game.score > Session128.score + 800
    /\ game.level >= Session128.level

----------------------------------------------------------------------------
(* Commands and the gravity timer                                          *)

\* move left, move right, soft drop, rotate, hold
TimerFreeKeys == {"ArrowLeft", "ArrowRight", "ArrowDown", "ArrowUp", "c", "C"}

\* drop counters a command may find: zero, part-way, at the interval, past it
CountersFound(g) == {0, 300, g.dropInterval, g.dropInterval + 1, 2500}

\* C29 -- Input does not touch the gravity timer: in play, a move, a rotation,
\* a soft drop and a hold do in the call what they would do at any other
\* value of the drop counter, and leave the counter, the grid, the level, the
\* lines and the drop interval as they are; the counter goes back to 0 only
\* by a hard drop or by the gravity action of a frame.
InputLeavesTimer ==
    /\ [](Playing(game) =>
            \A key \in TimerFreeKeys, rnd \in Draws :
                LET r == handleInput(game, key, rnd)
                IN  /\ r.dropCounter = game.dropCounter
                    /\ r.grid = game.grid
                    /\ r.level = game.level
                    /\ r.linesCleared = game.linesCleared
                    /\ r.dropInterval = game.dropInterval
                    /\ \A c \in CountersFound(game) :
                          handleInput([game EXCEPT !.dropCounter = c], key, rnd)
                              = [r EXCEPT !.dropCounter = c])
    /\ [][/\ last'.op = "hold" => game'.dropCounter = game.dropCounter
          /\ (game'.dropCounter = 0 /\ game.dropCounter # 0) =>
                \/ HardDropStep
                \/ \E d \in env.deltas :
                      game.dropCounter + d > game.dropInterval /\ FrameOf(d)]_vars

\* a hold has brought the slot's piece into play with the drop counter
\* part-way to the interval, where the frames before had left it
HoldKeepsTimerWitness ==
    /\ last.op = "hold"
    /\ Playing(game)
    /\ game.dropCounter = 700
    /\ game.heldPiece # NULL
    /\ game.currentPiece.y = 18

----------------------------------------------------------------------------
(* Four rotations                                                          *)

\* C30 -- Four rotations are the identity: for each kind, after four rotate
\* commands in a row, each accepted with kick 0, the active piece has the
\* ordered offsets and the anchor it had before the first.
FourTurnsIdentity ==
    (last.op = "turn" /\ last.turns = 4 /\ last.unkicked) =>
        /\ game.currentPiece.coords = last.from.coords
        /\ game.currentPiece.x = last.from.x
        /\ game.currentPiece.y = last.from.y
        /\ game.currentPiece.type = last.from.type

\* an S over the mid-game stack has been turned four times without a kick,
\* through offsets other than its own, and is back as it was
FourTurnsWitness ==
    /\ last.op = "turn"
    /\ last.turns = 4
    /\ last.unkicked
    /\ game.grid = StackGrid
    /\ game.currentPiece.type = "S"
    /\ game.currentPiece = last.from
    /\ Rotated(game.currentPiece.coords) # game.currentPiece.coords
    /\ Rotated(Rotated(game.currentPiece.coords)) # game.currentPiece.coords

----------------------------------------------------------------------------
(* The catalog and the piece objects                                       *)

\* C31 -- No aliasing with the catalog: whatever spawns, rotations and holds
\* have happened, every entry of SHAPES holds the offsets it was declared
\* with, and a rotation of the active piece changes neither the offsets of
\* the next piece nor those of the held piece.
CatalogUntouched ==
    /\ [](\A a \in CatalogRefs : game.heap[a].coords = SHAPES[KEYS[a]].coords)
    /\ [][last'.op = "turn" =>
             /\ game'.nextPiece = game.nextPiece
             /\ game'.heldPiece = game.heldPiece
             /\ game'.heap[game.nextPiece].coords = game.heap[game.nextPiece].coords
             /\ game.heldPiece # NullRef =>
                   game'.heap[game.heldPiece].coords = game.heap[game.heldPiece].coords]_vars

\* after a spawn and a hold the active piece, of the kind of both the next
\* and the held piece, has been rotated: its offsets are no longer theirs
RotatedApartWitness ==
    /\ last.op = "turn"
    /\ nLocks = 1
    /\ game.heldPiece # NullRef
    /\ game.heap[game.currentPiece].type = game.heap[game.nextPiece].type
    /\ game.heap[game.currentPiece].type = game.heap[game.heldPiece].type
    /\ game.heap[game.currentPiece].coords # game.heap[game.nextPiece].coords
    /\ game.heap[game.nextPiece].coords = game.heap[game.heldPiece].coords

----------------------------------------------------------------------------
(* Ghost piece                                                             *)

\* C32 -- Ghost equals hard-drop landing: in every state in play the drop
\* distance of updateGhostPosition is the number of rows the hard drop loop
\* descends, neither more than 19, the ghost cells are the cells the piece
\* stands on after that loop, and updateGhostPosition leaves the grid and
\* the active piece as they are; a hard drop that clears no row writes
\* exactly the ghost cells of the state it was made in.
GhostIsLanding ==
    /\ [](Playing(game) =>
            LET ghost   == updateGhostPosition(game)
                dropped == HardDropLoop(game)
                cells   == {ghost.ghostMeshes[i] : i \in 1 .. 4}
            IN  /\ ghost.dropDist = game.currentPiece.y - dropped.currentPiece.y
                /\ ghost.dropDist * hardDropScore = dropped.score - game.score
                /\ ghost.dropDist \in 0 .. 19
                /\ cells = Footprint(dropped.currentPiece)
                /\ Cardinality(cells) = 4
                /\ ghost.grid = game.grid
                /\ ghost.currentPiece = game.currentPiece)
    /\ [][(HardDropStep /\ game'.linesCleared = game.linesCleared) =>
             LET ghost == updateGhostPosition(game)
             IN  {c \in Cols \X Rows : game'.grid[c[1]][c[2]] # game.grid[c[1]][c[2]]}
                    = {ghost.ghostMeshes[i] : i \in 1 .. 4}]_vars

\* an upright I stands over the open column: its ghost lies on the floor of
\* the well, more than ten rows below
GhostInWellWitness ==
    /\ Playing(game)
    /\ game.currentPiece.type = "I"
    /\ updateGhostPosition(game).dropDist > 10
    /\ \E i \in 1 .. 4 : updateGhostPosition(game).ghostMeshes[i] = <<4, 0>>
    /\ HardDropLoop(game).currentPiece.y = game.currentPiece.y - updateGhostPosition(game).dropDist

----------------------------------------------------------------------------
(* Reset and the gravity timer                                             *)

\* C33 -- Reset restarts the gravity timer: immediately after a reset the
\* drop counter is 0, as at construction, whichever way the game ended.
ResetRestartsTimer == last.op = "reset" => game.dropCounter = 0

\* a hold ended the game with the drop counter part-way; the reset that
\* followed started a new game with the counter where it was
ResetKeepsCounterWitness ==
    /\ last.op = "reset"
    /\ Playing(game)
    /\ game.dropCounter = 700
    /\ game.grid = createEmptyGrid
    /\ game.score = 0
    /\ game.heldPiece = NULL

----------------------------------------------------------------------------
(* Rows at rest                                                            *)

\* C34 -- No full row at rest: after every frame and every command, every
\* row of the grid has an empty cell; the rows a lock completes are gone
\* when the step that locked is over.
NoFullRowAtRest ==
    \A y \in 0 .. 19 : \E x \in 0 .. 9 : game.grid[x][y] = 0

\* a lock has completed rows, they were cleared in the same step, and the
\* cells of the piece that were not in those rows are in the grid
RowsGoneWitness ==
    /\ last.op = "lock"
    /\ game.linesCleared \in {Session8.linesCleared + 1, Session8.linesCleared + 2}
    /\ Cardinality(Occupied(game.grid)) > Cardinality(Occupied(StackGrid)) + 4 - 20
    /\ NoFullRowAtRest

----------------------------------------------------------------------------
(* The anchor row                                                          *)

\* C35 -- The anchor row never rises: a step that places a piece at the
\* spawn anchor (a lock, a hold, a reset) leaves the active piece in row 18;
\* no other step, frame or command, raises the anchor row of the active
\* piece.
AnchorNeverRises ==
    [][IF last'.op \in {"lock", "hold", "reset"}
       THEN game'.currentPiece.y = 18
       ELSE game'.currentPiece.y <= game.currentPiece.y]_vars

\* the active piece has come down from the spawn row and a rotation was
\* refused where it stands: it is still in its row
LowAndTurnedWitness ==
    /\ last.op = "rotate-refused"
    /\ Playing(game)
    /\ game.currentPiece.y < 16
    /\ nLocks = 0

----------------------------------------------------------------------------
(* Locks cannot be put off                                                 *)

\* C36 -- Every piece eventually locks: while the game stays in play and
\* frames keep coming, whatever moves, rotations, soft drops and holds come
\* in between, a piece is eventually locked into the grid or the game is
\* over.
EventuallyLocks == <>(nLocks > 0 \/ game.isGameOver)

\* the lock came after both holds the code allows and two soft drops
LockedAfterHoldsWitness ==
    /\ last.op = "lock"
    /\ nLocks = 1
    /\ game.heldPiece # NULL
    /\ game.heldPiece.type = "O"
    /\ game.score = Session8.score + 2

----------------------------------------------------------------------------
(* The unattended game                                                     *)

\* C37 -- An unattended game ends: in a new game that gets frames and no
\* key, whatever kinds are drawn, no line is ever cleared (score 0, lines 0,
\* level 1 throughout) and the game is eventually over.
UnattendedGameEnds ==
    /\ [](game.score = 0 /\ game.linesCleared = 0 /\ game.level = 1)
    /\ <>game.isGameOver

\* the pieces have piled up under the spawn anchor until one could not
\* spawn: the game is over, nothing was scored and the side columns are empty
PiledUpWitness ==
    /\ game.isGameOver
    /\ last.op = "lock"
    /\ nLocks >= 9
    /\ game.score = 0
    /\ \A y \in 0 .. 19 : game.grid[0][y] = 0 /\ game.grid[9][y] = 0

----------------------------------------------------------------------------
(* The hold slot                                                           *)

\* C38 -- Held pieces are stored unrotated: the offsets and the color of a
\* non-empty hold slot are those SHAPES declares for its kind, whatever
\* rotation the active piece had when it was held; and the piece a hold takes
\* out of the slot becomes the active piece at the spawn position with the
\* offsets and the color of the catalog.
HeldStoredUnrotated ==
    /\ [](game.heldPiece # NullRef =>
             LET held == game.heap[game.heldPiece]
             IN  /\ held.coords = SHAPES[held.type].coords
                 /\ held.color = SHAPES[held.type].color)
    /\ [][(last'.op = "hold" /\ game.heldPiece # NullRef) =>
             LET out == game'.heap[game'.currentPiece]
             IN  /\ game'.currentPiece = game.heldPiece
                 /\ out.type = game.heap[game.heldPiece].type
                 /\ out.coords = SHAPES[out.type].coords
                 /\ out.color = SHAPES[out.type].color
                 /\ out.x = SpawnX(out)
                 /\ out.y = SpawnY]_vars

\* a rotated active piece has just been exchanged with the piece in the slot
TurnedPieceHeldWitness ==
    /\ last.op = "hold"
    /\ last.turned
    /\ last.swapped
    /\ game.heap[game.heldPiece].type # game.heap[game.currentPiece].type
    /\ game.heap[game.heldPiece].coords = SHAPES[game.heap[game.heldPiece].type].coords

----------------------------------------------------------------------------
(* The loader                                                              *)

\* the download failed, or the digest of the text is not the pinned one
LoadFailed ==
    \/ env.response \in {"not ok", "rejected"}
    \/ (env.source # "none" /\ Sha384(env.source) # THREE_CDN_SHA384)

\* C39 -- The game starts only from a verified module: a game exists, and
\* initGame has been called, only when the download was answered with an OK
\* response and the SHA-384 digest of the text equals the pinned value; after
\* a failed download or a digest mismatch the loader ends with the error box
\* shown, and no game is ever constructed.
StartsOnlyVerified ==
    /\ []((game # NULL \/ env.pc = "done" \/ env.THREE # "undefined" \/ env.keydown) =>
             /\ env.response = "ok"
             /\ Sha384(env.source) = THREE_CDN_SHA384)
    /\ [][last'.op = "initGame" =>
             /\ env.response = "ok"
             /\ Sha384(env.source) = THREE_CDN_SHA384]_vars
    /\ [](LoadFailed => [](game = NULL /\ env.timers = 0 /\ env.frames = {}))
    /\ (LoadFailed ~> (env.pc = "failed" /\ env.body = "errorBox"))

\* the download was answered with the edited release: the digest differs,
\* the error box is shown and there is no game
TamperedRefusedWitness ==
    /\ env.response = "ok"
    /\ env.source = "three r161 edited"
    /\ env.pc = "failed"
    /\ env.body = "errorBox"
    /\ game = NULL

====
